---- MODULE Spec2Model ----
(***************************************************************************)
(* TrustWatch phishing-detection backend: the scoring engine               *)
(* (URLAnalyzer, TextAnalyzer, ThreatIntelligence, MLDetector) and the     *)
(* scan endpoints of app.py that drive it, with the scan log and the       *)
(* statistics row of database/db.py.                                       *)
(*                                                                         *)
(* Python strings are TLA+ strings; Len, SubSeq and \o act on them         *)
(* character by character.  A score is a rational number [n, d] in lowest  *)
(* terms, because detect_text adds half of an average to an integer.       *)
(***************************************************************************)
EXTENDS Integers, Sequences, FiniteSets, TLC

(***************************************************************************)
(* String primitives (Python str methods and the re patterns the code uses)*)
(***************************************************************************)

\* s[i] as a one-character string (1-based)
CharAt(s, i) == SubSeq(s, i, i)

\* s[i-1:] in Python terms: the suffix starting at the 1-based position i
From(s, i) == SubSeq(s, i, Len(s))

\* s.startswith(p)
StartsWith(s, p) == Len(p) <= Len(s) /\ SubSeq(s, 1, Len(p)) = p

\* s.endswith(p)
EndsWith(s, p) == Len(p) <= Len(s) /\ SubSeq(s, Len(s) - Len(p) + 1, Len(s)) = p

\* p occurs in s at the 1-based position i
OccursAt(s, p, i) == i >= 1 /\ i + Len(p) - 1 <= Len(s) /\ SubSeq(s, i, i + Len(p) - 1) = p

\* p in s
Contains(s, p) == \E i \in 1..(Len(s) - Len(p) + 1) : SubSeq(s, i, i + Len(p) - 1) = p

\* s.find(p) as a 1-based position, 0 when p does not occur
Find(s, p) ==
  IF Contains(s, p)
  THEN CHOOSE i \in 1..(Len(s) - Len(p) + 1) :
         /\ SubSeq(s, i, i + Len(p) - 1) = p
         /\ \A j \in 1..(i - 1) : SubSeq(s, j, j + Len(p) - 1) # p
  ELSE 0

\* s.count(p): the number of non-overlapping occurrences, scanning left to right
RECURSIVE Count(_, _)
Count(s, p) ==
  LET i == Find(s, p)
  IN IF i = 0 THEN 0 ELSE 1 + Count(From(s, i + Len(p)), p)

\* s.split(sep)[0]
SplitFirst(s, sep) ==
  LET i == Find(s, sep)
  IN IF i = 0 THEN s ELSE SubSeq(s, 1, i - 1)

UpperChars == <<"A","B","C","D","E","F","G","H","I","J","K","L","M",
                "N","O","P","Q","R","S","T","U","V","W","X","Y","Z">>
LowerChars == <<"a","b","c","d","e","f","g","h","i","j","k","l","m",
                "n","o","p","q","r","s","t","u","v","w","x","y","z">>
DigitChars == {"0","1","2","3","4","5","6","7","8","9"}

Range(f) == {f[i] : i \in DOMAIN f}

IsUpper(c) == c \in Range(UpperChars)
IsLower(c) == c \in Range(LowerChars)
IsAlpha(c) == IsUpper(c) \/ IsLower(c)
IsDigit(c) == c \in DigitChars

\* c.lower() for one character; the scripts without case pass through
LowerChar(c) ==
  IF IsUpper(c)
  THEN LowerChars[CHOOSE k \in DOMAIN UpperChars : UpperChars[k] = c]
  ELSE c

\* s.lower()
RECURSIVE Lower(_)
Lower(s) == IF s = "" THEN "" ELSE LowerChar(CharAt(s, 1)) \o Lower(From(s, 2))

\* s.strip(): leading and trailing whitespace removed
IsSpace(c) == c \in {" ", "\t", "\n", "\r"}
RECURSIVE LStrip(_)
LStrip(s) == IF s # "" /\ IsSpace(CharAt(s, 1)) THEN LStrip(From(s, 2)) ELSE s
RECURSIVE RStrip(_)
RStrip(s) ==
  IF s # "" /\ IsSpace(CharAt(s, Len(s))) THEN RStrip(SubSeq(s, 1, Len(s) - 1)) ELSE s
Strip(s) == RStrip(LStrip(s))

\* s.isupper(): at least one cased character and no lowercase one
StrIsUpper(s) ==
  /\ \E i \in 1..Len(s) : IsUpper(CharAt(s, i))
  /\ \A i \in 1..Len(s) : ~IsLower(CharAt(s, i))

RECURSIVE SumSeq(_)
SumSeq(seq) == IF seq = <<>> THEN 0 ELSE Head(seq) + SumSeq(Tail(seq))

\* str(k) for a natural number k, as the f-strings format a count
DigitStr == <<"0","1","2","3","4","5","6","7","8","9">>
RECURSIVE IntToStr(_)
IntToStr(k) ==
  IF k < 10 THEN DigitStr[k + 1] ELSE IntToStr(k \div 10) \o DigitStr[(k % 10) + 1]

\* s.split(sep) for a non-empty separator
RECURSIVE SplitAll(_, _)
SplitAll(s, sep) ==
  LET i == Find(s, sep)
  IN IF i = 0 THEN <<s>> ELSE <<SubSeq(s, 1, i - 1)>> \o SplitAll(From(s, i + Len(sep)), sep)

\* s.rfind(p) as a 1-based position, 0 when p does not occur
RFind(s, p) ==
  IF Contains(s, p)
  THEN CHOOSE i \in 1..(Len(s) - Len(p) + 1) :
         /\ SubSeq(s, i, i + Len(p) - 1) = p
         /\ \A j \in (i + 1)..(Len(s) - Len(p) + 1) : SubSeq(s, j, j + Len(p) - 1) # p
  ELSE 0

\* the 1-based position of the first character of s that is in the set cs, 0 if none
FindAny(s, cs) ==
  IF \E i \in 1..Len(s) : CharAt(s, i) \in cs
  THEN CHOOSE i \in 1..Len(s) :
         CharAt(s, i) \in cs /\ \A j \in 1..(i - 1) : CharAt(s, j) \notin cs
  ELSE 0

\* an empty Python dict; a dict is a function from its keys
EmptyDict == [k \in {} |-> ""]

(***************************************************************************)
(* urllib.parse.urlparse, as far as URLAnalyzer.analyze reads it: scheme,  *)
(* netloc and path, and the ValueError of a netloc with one square bracket *)
(***************************************************************************)

SchemeChars == Range(UpperChars) \cup Range(LowerChars) \cup DigitChars \cup {"+", "-", "."}

UrlParse(url) ==
  LET Parsed(scheme, netloc, u3) ==
        \* urlparse: http and https use params; the last segment loses ";params"
        LET lastSlash == RFind(u3, "/")
            semi == IF lastSlash = 0 THEN Find(u3, ";")
                    ELSE LET k == Find(From(u3, lastSlash), ";")
                         IN IF k = 0 THEN 0 ELSE lastSlash + k - 1
            path == IF scheme \in {"http", "https", ""} /\ semi > 0
                    THEN SubSeq(u3, 1, semi - 1) ELSE u3
            badBrackets == \/ Contains(netloc, "[") /\ ~Contains(netloc, "]")
                           \/ Contains(netloc, "]") /\ ~Contains(netloc, "[")
        IN [ok |-> ~badBrackets, scheme |-> scheme, netloc |-> netloc, path |-> path]
      SplitNetloc(scheme, afterSlashes, delim) ==
        Parsed(scheme,
               IF delim = 0 THEN afterSlashes ELSE SubSeq(afterSlashes, 1, delim - 1),
               SplitFirst(SplitFirst(IF delim = 0 THEN "" ELSE From(afterSlashes, delim),
                                     "#"), "?"))
      AfterScheme(scheme, u1) ==
        IF StartsWith(u1, "//")
        THEN SplitNetloc(scheme, From(u1, 3), FindAny(From(u1, 3), {"/", "?", "#"}))
        ELSE Parsed(scheme, "", SplitFirst(SplitFirst(u1, "#"), "?"))
      SplitScheme(u0, c) ==
        IF /\ c > 1
           /\ IsAlpha(CharAt(u0, 1))
           /\ \A i \in 1..(c - 1) : CharAt(u0, i) \in SchemeChars
        THEN AfterScheme(Lower(SubSeq(u0, 1, c - 1)), From(u0, c + 1))
        ELSE AfterScheme("", u0)
  IN SplitScheme(LStrip(url), Find(LStrip(url), ":"))

(***************************************************************************)
(* models/url_analyzer.py                                                  *)
(***************************************************************************)

suspicious_keywords ==
  <<"login", "signin", "account", "verify", "secure", "update",
    "banking", "paypal", "amazon", "microsoft", "apple",
    "suspended", "locked", "confirm", "urgent", "alert">>

suspicious_tlds == <<".tk", ".ml", ".ga", ".cf", ".gq", ".xyz", ".top">>

shorteners == <<"bit.ly", "tinyurl.com", "goo.gl", "t.co", "ow.ly">>

homoglyph_brands == <<"google", "facebook", "amazon", "microsoft", "apple", "paypal">>

\* the values of the homoglyphs table, in order: lookalikes of o, a, e, i, l.
\* A TLA+ string holds no Cyrillic letter: the Cyrillic lookalike of a letter c is
\* written ~cyr-c~, an atom that occurs in no input unless the input spells it.
homoglyph_variants ==
  <<"0", "ο", "~cyr-o~", "~cyr-a~", "α", "~cyr-e~", "ε", "~cyr-i~", "ι", "1", "1", "ӏ">>

\* re.match(r'^(\d{1,3}\.){3}\d{1,3}$', domain)
IsIpAddress(domain) ==
  LET parts == SplitAll(domain, ".")
  IN /\ Len(parts) = 4
     /\ \A k \in 1..4 :
          /\ Len(parts[k]) \in 1..3
          /\ \A i \in 1..Len(parts[k]) : IsDigit(CharAt(parts[k], i))

CheckHomoglyphs(domain) ==
  LET domain_lower == Lower(domain)
  IN \E b \in DOMAIN homoglyph_brands :
       /\ Contains(domain_lower, homoglyph_brands[b])
       /\ homoglyph_brands[b] # domain_lower
       /\ \E v \in DOMAIN homoglyph_variants : Contains(domain_lower, homoglyph_variants[v])

\* the first suspicious TLD, in table order, that the lowercased url contains
\* (url.lower().endswith(tld) implies tld in url.lower()); 0 when there is none
FirstTld(url) ==
  LET hits == {k \in DOMAIN suspicious_tlds : Contains(Lower(url), suspicious_tlds[k])}
  IN IF hits = {} THEN 0 ELSE CHOOSE k \in hits : \A j \in hits : k <= j

\* one check of analyze: whether it fires, what it adds, the indicator it appends
Check(fires, delta, indicator) == [fires |-> fires, delta |-> delta, indicator |-> indicator]

\* the checks of analyze after the URL has been parsed, in the order of the code
UrlChecks(url, domain) ==
  LET keyword_count == Len(SelectSeq(suspicious_keywords, LAMBDA kw : Contains(Lower(url), kw)))
      tld == FirstTld(url)
      subdomain_count == Count(domain, ".")
  IN << Check(Len(url) > 75, 15, "Unusually long URL"),
        Check(IsIpAddress(domain), 25, "Uses IP address instead of domain"),
        Check(keyword_count >= 2, keyword_count * 10,
              "Contains " \o IntToStr(keyword_count) \o " suspicious keywords"),
        Check(tld # 0, 20,
              "Suspicious TLD: " \o (IF tld = 0 THEN "" ELSE suspicious_tlds[tld])),
        Check(subdomain_count > 3, 15,
              "Excessive subdomains (" \o IntToStr(subdomain_count) \o ")"),
        Check(Contains(url, "@"), 25, "Contains @ symbol (URL obfuscation)"),
        Check(Count(url, "//") > 1, 10, "Multiple // in URL"),
        Check(CheckHomoglyphs(domain), 30, "Possible homoglyph attack detected"),
        Check(~StartsWith(url, "https://"), 20, "No HTTPS encryption"),
        Check(\E k \in DOMAIN shorteners : Contains(Lower(domain), shorteners[k]), 15,
              "URL shortener detected"),
        Check(Count(domain, "-") > 3, 10, "Excessive hyphens in domain") >>

\* a check that adds nothing once the running score has reached 50
ApplyCheckBelowFifty(c, results) ==
  IF c.fires /\ results.score < 50
  THEN [results EXCEPT !.score = @ + c.delta, !.indicators = Append(@, c.indicator)]
  ELSE results

\* one check applied to the results dict of a call: a check that fires
\* appends its indicator and adds its delta to the score
ApplyCheck(c, results) ==
  IF c.fires
  THEN [results EXCEPT !.score = @ + c.delta, !.indicators = Append(@, c.indicator)]
  ELSE results

\* the running score and the indicator list after the checks, applied in order
RECURSIVE ApplyChecks(_, _)
ApplyChecks(checks, acc) ==
  IF checks = <<>> THEN acc
  ELSE ApplyChecks(Tail(checks), ApplyCheck(Head(checks), acc))

\* domain = parsed.netloc or parsed.path.split('/')[0]
UrlDomain(parsed) ==
  IF parsed.netloc # "" THEN parsed.netloc ELSE SplitFirst(parsed.path, "/")

\* results['details'] as analyze leaves it: domain, protocol, path
UrlDetails(parsed, domain) ==
  [domain |-> domain, protocol |-> parsed.scheme, path |-> parsed.path]

\* URLAnalyzer.analyze(url)
UrlAnalyze(url) ==
  LET Results(parsed, domain, r) ==
        [url |-> url, indicators |-> r.indicators, score |-> r.score,
         domain |-> domain, details |-> UrlDetails(parsed, domain)]
      Checked(parsed, domain) ==
        Results(parsed, domain,
                ApplyChecks(UrlChecks(url, domain), [score |-> 0, indicators |-> <<>>]))
      Analyzed(parsed) ==
        IF ~parsed.ok
        THEN [url |-> url, indicators |-> <<"Invalid URL format">>, score |-> 30,
              details |-> EmptyDict]
        ELSE Checked(parsed, UrlDomain(parsed))
  IN Analyzed(UrlParse(url))

(***************************************************************************)
(* models/text_analyzer.py                                                 *)
(***************************************************************************)

\* phishing_keywords, the four dictionaries in the order of the dict: english,
\* hindi, tamil, telugu.  A TLA+ string holds no Devanagari, Tamil or Telugu
\* text: keyword k of such a dictionary is written ~hi-k~, ~ta-k~, ~te-k~, an
\* atom that occurs in no input unless the input spells it.
keywords_english ==
  <<"urgent", "verify", "suspended", "locked", "confirm", "update",
    "click here", "act now", "limited time", "expire", "account",
    "password", "credit card", "bank", "security", "alert",
    "winner", "prize", "congratulations", "claim", "free",
    "refund", "tax", "payment", "invoice", "billing">>
keywords_hindi == <<"~hi-1~", "~hi-2~", "~hi-3~", "~hi-4~", "~hi-5~", "~hi-6~", "~hi-7~", "~hi-8~", "~hi-9~", "~hi-10~", "~hi-11~", "~hi-12~", "~hi-13~", "~hi-14~", "~hi-15~">>
keywords_tamil == <<"~ta-1~", "~ta-2~", "~ta-3~", "~ta-4~", "~ta-5~", "~ta-6~", "~ta-7~", "~ta-8~">>
keywords_telugu == <<"~te-1~", "~te-2~", "~te-3~", "~te-4~", "~te-5~", "~te-6~", "~te-7~", "~te-8~">>
phishing_keywords == keywords_english \o keywords_hindi \o keywords_tamil \o keywords_telugu

urgency_words ==
  <<"urgent", "immediately", "now", "asap", "hurry", "quick",
    "expire", "deadline", "limited", "act now", "last chance">>

financial_words ==
  <<"bank", "credit card", "payment", "money", "transfer",
    "account", "refund", "tax", "invoice", "billing", "paypal">>

text_brands == <<"google", "facebook", "amazon", "microsoft", "apple", "paypal", "bank">>

\* the character class of url_pattern: letters, digits, the range $-_ and !*\(),
UrlChar(c) ==
  \/ IsAlpha(c)
  \/ IsDigit(c)
  \/ c \in {"$", "%", "&", "'", "(", ")", "*", "+", ",", "-", ".", "/", ":", ";",
            "<", "=", ">", "?", "@", "[", "\\", "]", "^", "_", "!"}

\* the 1-based position of the last character of the run of url characters
\* that starts at position b
RECURSIVE RunEnd(_, _)
RunEnd(text, b) ==
  IF b < Len(text) /\ UrlChar(CharAt(text, b + 1)) THEN RunEnd(text, b + 1) ELSE b

\* TextAnalyzer._extract_urls: re.findall of http[s]?:// followed by one or
\* more url characters; leftmost matches, greedy, not overlapping
RECURSIVE ExtractUrls(_)
ExtractUrls(text) ==
  LET Pre(i) == IF OccursAt(text, "http://", i) THEN "http://"
                ELSE IF OccursAt(text, "https://", i) THEN "https://" ELSE ""
      starts == {i \in 1..Len(text) :
                   /\ Pre(i) # ""
                   /\ i + Len(Pre(i)) <= Len(text)
                   /\ UrlChar(CharAt(text, i + Len(Pre(i))))}
  IN IF starts = {} THEN <<>>
     ELSE LET i == CHOOSE k \in starts : \A j \in starts : k <= j
              e == RunEnd(text, i + Len(Pre(i)))
          IN <<SubSeq(text, i, e)>> \o ExtractUrls(From(text, e + 1))

\* \w of the re module, on the characters of the model
IsWordChar(c) == IsAlpha(c) \/ IsDigit(c) \/ c = "_"

\* re.search(r'\b(p1|p2|...)\b', s) for phrases that begin and end with a letter
SearchWord(s, phrases) ==
  \E k \in DOMAIN phrases : \E i \in 1..Len(s) :
    /\ OccursAt(s, phrases[k], i)
    /\ i = 1 \/ ~IsWordChar(CharAt(s, i - 1))
    /\ i + Len(phrases[k]) > Len(s) \/ ~IsWordChar(CharAt(s, i + Len(phrases[k])))

\* re.search(r'(a1|a2|...).*(b1|b2|...)', s): '.' matches no newline
SearchGap(s, as, bs) ==
  LET firsts == {p \in (1..Len(s)) \X DOMAIN as : OccursAt(s, as[p[2]], p[1])}
      seconds == {j \in 1..Len(s) : \E b \in DOMAIN bs : OccursAt(s, bs[b], j)}
  IN \E p \in firsts : \E j \in seconds :
       /\ j >= p[1] + Len(as[p[2]])
       /\ \A k \in (p[1] + Len(as[p[2]]))..(j - 1) : CharAt(s, k) # "\n"

\* credential_patterns, in order: whether each one matches text_lower
CredentialMatches(text_lower) ==
  << SearchGap(text_lower, <<"enter", "provide", "verify", "confirm">>,
                           <<"password", "pin", "otp", "code">>),
     SearchGap(text_lower, <<"username", "user id">>, <<"password", "pin">>),
     \E k \in 1..4 :
        Contains(text_lower, <<"credit card", "card number", "cvv", "expiry">>[k]) >>

\* TextAnalyzer._check_poor_grammar
CheckPoorGrammar(text) ==
  \/ Contains(text, "  ")
  \/ \E i \in 1..(Len(text) - 1) :
       CharAt(text, i) \in {".", ",", "!", "?"} /\ IsAlpha(CharAt(text, i + 1))

\* keyword_matches: the keywords found, in dictionary order
KeywordMatches(text) ==
  SelectSeq(phishing_keywords, LAMBDA kw : Contains(Lower(text), kw) \/ Contains(text, kw))

UrgencyCount(text) == Len(SelectSeq(urgency_words, LAMBDA w : Contains(Lower(text), w)))

BrandMentions(text) == SelectSeq(text_brands, LAMBDA b : Contains(Lower(text), b))

\* the checks of TextAnalyzer.analyze, in the order of the code
TextChecks(text) ==
  LET Checks(text_lower, keyword_matches, urgency_count, financial_count, urls,
             exclamation_count, cred) ==
     << Check(keyword_matches # <<>>, Len(keyword_matches) * 5,
              "Found " \o IntToStr(Len(keyword_matches)) \o " phishing keywords"),
        Check(urgency_count > 0, urgency_count * 10,
              "Contains " \o IntToStr(urgency_count) \o " urgency indicators"),
        Check(financial_count >= 2, financial_count * 8,
              "Contains " \o IntToStr(financial_count) \o " financial keywords"),
        Check(urls # <<>>, Len(urls) * 10,
              "Contains " \o IntToStr(Len(urls)) \o " URL(s)"),
        Check(StrIsUpper(text) /\ Len(text) > 20, 15,
              "Excessive capitalization (ALL CAPS)"),
        Check(exclamation_count > 2, 10,
              "Excessive exclamation marks (" \o IntToStr(exclamation_count) \o ")"),
        Check(SearchWord(text_lower, <<"click here", "click now", "verify now", "update now">>),
              20, "Suspicious call-to-action detected"),
        Check(\E k \in DOMAIN cred : cred[k], 30, "Requests sensitive credentials"),
        Check(CheckPoorGrammar(text), 10, "Possible poor grammar detected"),
        Check(BrandMentions(text) # <<>> /\ urgency_count > 0, 25,
              "Brand impersonation with urgency") >>
      FinancialCount(text_lower) ==
        Len(SelectSeq(financial_words, LAMBDA w : Contains(text_lower, w)))
  IN Checks(Lower(text), KeywordMatches(text), UrgencyCount(text),
            FinancialCount(Lower(text)), ExtractUrls(text), Count(text, "!"),
            CredentialMatches(Lower(text)))

\* the details dict of TextAnalyzer.analyze: a key is present only when its
\* list is not empty
TextDetails(text) ==
  LET Details(keyword_matches, urls, brand_mentions) ==
        (IF keyword_matches # <<>>
         THEN [keywords |-> SubSeq(keyword_matches, 1, IF Len(keyword_matches) < 5
                                                        THEN Len(keyword_matches) ELSE 5)]
         ELSE EmptyDict)
        @@ (IF urls # <<>> THEN [urls |-> urls] ELSE EmptyDict)
        @@ (IF brand_mentions # <<>> THEN [mentioned_brands |-> brand_mentions]
            ELSE EmptyDict)
  IN Details(KeywordMatches(text), ExtractUrls(text), BrandMentions(text))

\* analyze counting the keywords of the dictionary of its language only
TextAnalyzeOwnLanguage(text, language) ==
  LET Own(keywords) ==
        SelectSeq(keywords, LAMBDA kw : Contains(Lower(text), kw) \/ Contains(text, kw))
      Results(r) ==
        [text_length |-> Len(text), indicators |-> r.indicators, score |-> r.score,
         details |-> TextDetails(text), language |-> language]
      Analyzed(keyword_matches) ==
        Results(ApplyChecks([TextChecks(text) EXCEPT ![1] =
                               Check(keyword_matches # <<>>, Len(keyword_matches) * 5,
                                     "Found " \o IntToStr(Len(keyword_matches))
                                     \o " phishing keywords")],
                            [score |-> 0, indicators |-> <<>>]))
  IN Analyzed(Own(IF language = "english" THEN keywords_english
                  ELSE IF language = "hindi" THEN keywords_hindi
                  ELSE IF language = "tamil" THEN keywords_tamil
                  ELSE IF language = "telugu" THEN keywords_telugu
                  ELSE <<>>))

\* TextAnalyzer.analyze(text, language)
TextAnalyze(text, language) ==
  LET Results(r) ==
        [text_length |-> Len(text), indicators |-> r.indicators, score |-> r.score,
         details |-> TextDetails(text), language |-> language]
  IN Results(ApplyChecks(TextChecks(text), [score |-> 0, indicators |-> <<>>]))

(***************************************************************************)
(* models/threat_intel.py                                                  *)
(***************************************************************************)

known_patterns ==
  <<"verify-account", "secure-login", "update-payment", "confirm-identity",
    "suspended-account">>

malicious_domains ==
  <<"phishing-example.com", "malicious-bank.com", "fake-login.net", "scam-alert.org">>

\* Python's None
None == [none |-> TRUE]

\* re.sub(r'^https?://', '', url)
StripProtocol(url) ==
  IF StartsWith(url, "http://") THEN From(url, 8)
  ELSE IF StartsWith(url, "https://") THEN From(url, 9)
  ELSE url

\* re.sub(r'^www\.', '', domain)
StripWww(domain) == IF StartsWith(domain, "www.") THEN From(domain, 5) ELSE domain

\* ThreatIntelligence._extract_domain(url)
ExtractDomain(url) ==
  Lower(StripWww(SplitFirst(SplitFirst(StripProtocol(url), "/"), ":")))

\* database.db.check_blacklist(domain) on a store that answers: the row of the
\* domain, None when there is none.  rows is the blacklist table.
CheckBlacklist(rows, domain) ==
  IF \E r \in rows : r.domain = domain
  THEN CHOOSE r \in rows : r.domain = domain
  ELSE None

\* the first known pattern, in list order, that the lowercased input contains;
\* 0 when there is none
FirstPattern(url_or_domain) ==
  LET hits == {k \in DOMAIN known_patterns :
                 Contains(Lower(url_or_domain), known_patterns[k])}
  IN IF hits = {} THEN 0 ELSE CHOOSE k \in hits : \A j \in hits : k <= j

\* check_threat trying the known patterns before the two domain lists
CheckThreatPatternFirst(url_or_domain, rows) ==
  LET Found(domain, db_result, pattern) ==
        IF pattern # 0
        THEN [found |-> TRUE, source |-> "pattern_matching",
              category |-> "suspicious_pattern", severity |-> "High",
              description |-> "Contains known phishing pattern: " \o known_patterns[pattern]]
        ELSE IF db_result # None
        THEN [found |-> TRUE, source |-> "database", category |-> db_result.category,
              severity |-> "Critical",
              description |-> "Domain " \o domain \o " is in blacklist"]
        ELSE IF \E k \in DOMAIN malicious_domains : malicious_domains[k] = domain
        THEN [found |-> TRUE, source |-> "threat_feed", category |-> "phishing",
              severity |-> "Critical",
              description |-> "Domain " \o domain \o " is known malicious"]
        ELSE None
      Looked(domain) ==
        Found(domain, CheckBlacklist(rows, domain), FirstPattern(url_or_domain))
  IN Looked(ExtractDomain(url_or_domain))

\* ThreatIntelligence.check_threat(url_or_domain), the store having answered
CheckThreat(url_or_domain, rows) ==
  LET domain == ExtractDomain(url_or_domain)
      db_result == CheckBlacklist(rows, domain)
      pattern == FirstPattern(url_or_domain)
  IN IF db_result # None
     THEN [found |-> TRUE, source |-> "database", category |-> db_result.category,
           severity |-> "Critical",
           description |-> "Domain " \o domain \o " is in blacklist"]
     ELSE IF \E k \in DOMAIN malicious_domains : malicious_domains[k] = domain
     THEN [found |-> TRUE, source |-> "threat_feed", category |-> "phishing",
           severity |-> "Critical",
           description |-> "Domain " \o domain \o " is known malicious"]
     ELSE IF pattern # 0
     THEN [found |-> TRUE, source |-> "pattern_matching",
           category |-> "suspicious_pattern", severity |-> "High",
           description |-> "Contains known phishing pattern: " \o known_patterns[pattern]]
     ELSE None

\* get_threat_score rating every severity as High is rated
GetThreatScoreAllHigh(threat_info) ==
  IF threat_info = None \/ ~threat_info.found THEN 0 ELSE 35

\* ThreatIntelligence.get_threat_score(threat_info)
GetThreatScore(threat_info) ==
  IF threat_info = None \/ ~threat_info.found THEN 0
  ELSE CASE threat_info.severity = "Critical" -> 50
         [] threat_info.severity = "High" -> 35
         [] threat_info.severity = "Medium" -> 20
         [] threat_info.severity = "Low" -> 10
         [] OTHER -> 0

(***************************************************************************)
(* Scores.  A score is the rational n/d in lowest terms, d > 0: the url    *)
(* path keeps integers (d = 1), detect_text adds avg_url_score * 0.5.      *)
(***************************************************************************)

RECURSIVE Gcd(_, _)
Gcd(a, b) == IF b = 0 THEN a ELSE Gcd(b, a % b)

Rat(n, d) == LET g == Gcd(n, d) IN [n |-> n \div g, d |-> d \div g]

\* the integer k as a score
IntScore(k) == [n |-> k, d |-> 1]

\* a + b
RAdd(a, b) == Rat(a.n * b.d + b.n * a.d, a.d * b.d)

\* a >= k and a <= b, for a score a, an integer k and a score b
RGeq(a, k) == a.n >= k * a.d
RLeq(a, b) == a.n * b.d <= b.n * a.d

\* min(a, k) of Python, for a score a and an integer k
RMin(a, k) == IF RLeq(a, IntScore(k)) THEN a ELSE IntScore(k)

(***************************************************************************)
(* models/ml_detector.py                                                   *)
(***************************************************************************)

thresholds == [low |-> 25, medium |-> 50, high |-> 75, critical |-> 100]

\* _calculate_risk_level with > in place of >=
CalculateRiskLevelStrict(score) ==
  IF score.n > thresholds.critical * score.d THEN "Critical"
  ELSE IF score.n > thresholds.high * score.d THEN "High"
  ELSE IF score.n > thresholds.medium * score.d THEN "Medium"
  ELSE "Low"

\* MLDetector._calculate_risk_level(score)
CalculateRiskLevel(score) ==
  IF RGeq(score, thresholds.critical) THEN "Critical"
  ELSE IF RGeq(score, thresholds.high) THEN "High"
  ELSE IF RGeq(score, thresholds.medium) THEN "Medium"
  ELSE "Low"

\* MLDetector._calculate_confidence(score)
CalculateConfidence(score) ==
  IF RGeq(score, 75) THEN 95
  ELSE IF RGeq(score, 50) THEN 85
  ELSE IF RGeq(score, 25) THEN 70
  ELSE 60

\* MLDetector._get_recommendation(risk_level)
GetRecommendation(risk_level) ==
  CASE risk_level = "Critical" ->
         "DO NOT INTERACT! This is highly likely a phishing attempt. Block and report immediately."
    [] risk_level = "High" ->
         "AVOID! Strong indicators of phishing. Do not click any links or provide information."
    [] risk_level = "Medium" ->
         "CAUTION! Suspicious content detected. Verify sender authenticity before proceeding."
    [] risk_level = "Low" ->
         "Appears safe, but always verify sender and be cautious with sensitive information."
    [] OTHER -> "Unable to determine"

\* threat_score >= self.thresholds['medium']
IsPhishing(threat_score) == RGeq(threat_score, thresholds.medium)

\* FinalScore without the clamp
FinalScoreUnclamped(score) == score

\* min(score, 100): the final score of a verdict
FinalScore(score) == RMin(score, 100)

\* the verdict detect_url builds from the results of the URL Analyzer
UrlVerdict(url, url_results) ==
  LET Result(results, threat_score, risk_level) ==
        [type |-> "url", content |-> url, threat_score |-> threat_score,
         risk_level |-> risk_level, is_phishing |-> IsPhishing(threat_score),
         confidence |-> CalculateConfidence(threat_score),
         indicators |-> results.indicators, details |-> results.details,
         recommendation |-> GetRecommendation(risk_level)]
      Scored(threat_score) ==
        Result(url_results, threat_score, CalculateRiskLevel(threat_score))
  IN Scored(FinalScore(IntScore(url_results.score)))

\* MLDetector.detect_url(url)
DetectUrl(url) == UrlVerdict(url, UrlAnalyze(url))

\* the urls detect_text passes to url_analyzer.analyze, one call each, in order
EmbeddedUrls(text_results) ==
  IF "urls" \in DOMAIN text_results.details THEN text_results.details.urls ELSE <<>>

\* url_scores of detect_text: the score of each embedded url
UrlScores(urls) == [i \in DOMAIN urls |-> UrlAnalyze(urls[i]).score]

\* detect_text adding the whole average instead of half of it
CombinedTextScoreWhole(score, url_scores) ==
  IF url_scores # <<>>
  THEN RAdd(IntScore(score), Rat(SumSeq(url_scores), Len(url_scores)))
  ELSE IntScore(score)

\* text_results['score'] after avg_url_score * 0.5 has been added
\* (avg_url_score = sum(url_scores) / len(url_scores))
CombinedTextScore(score, url_scores) ==
  IF url_scores # <<>>
  THEN RAdd(IntScore(score), Rat(SumSeq(url_scores), 2 * Len(url_scores)))
  ELSE IntScore(score)

\* the cut taken from 100 characters on
TruncateFrom100(text) == IF Len(text) >= 100 THEN SubSeq(text, 1, 100) \o "..." ELSE text

\* text[:100] + '...' if len(text) > 100 else text
Truncate(text) == IF Len(text) > 100 THEN SubSeq(text, 1, 100) \o "..." ELSE text

\* the verdict detect_text builds from the results of the Text Analyzer and
\* the scores of the embedded urls
TextVerdict(text, language, text_results, url_scores) ==
  LET Result(results, threat_score, risk_level) ==
        [type |-> "text", content |-> Truncate(text), threat_score |-> threat_score,
         risk_level |-> risk_level, is_phishing |-> IsPhishing(threat_score),
         confidence |-> CalculateConfidence(threat_score),
         indicators |-> results.indicators, details |-> results.details,
         language |-> language, recommendation |-> GetRecommendation(risk_level)]
      Scored(threat_score) ==
        Result(text_results, threat_score, CalculateRiskLevel(threat_score))
  IN Scored(FinalScore(CombinedTextScore(text_results.score, url_scores)))

\* MLDetector.detect_text(text, language)
DetectText(text, language) ==
  LET Analyzed(text_results) ==
        TextVerdict(text, language, text_results, UrlScores(EmbeddedUrls(text_results)))
  IN Analyzed(TextAnalyze(text, language))

\* detect_sms testing the length alone
SmsShort(sms_text, result) == Len(sms_text) < 100

\* whether detect_sms adds 15: a short message that carries a url
SmsShortWithUrl(sms_text, result) ==
  Len(sms_text) < 100 /\ "urls" \in DOMAIN result.details

\* the verdict detect_sms makes of the verdict of detect_text
SmsVerdict(sms_text, result) ==
  LET Result(short, threat_score, risk_level) ==
      [result EXCEPT
        !.type = "sms",
        !.indicators = IF short
                       THEN Append(@, "Short message with URL (common in SMS phishing)")
                       ELSE @,
        !.threat_score = threat_score,
        !.risk_level = risk_level,
        !.is_phishing = IsPhishing(threat_score),
        !.confidence = CalculateConfidence(threat_score),
        !.recommendation = GetRecommendation(risk_level)]
      Scored(short, threat_score) ==
        Result(short, threat_score, CalculateRiskLevel(threat_score))
      Adjusted(short) ==
        Scored(short, FinalScore(IF short THEN RAdd(result.threat_score, IntScore(15))
                                 ELSE result.threat_score))
  IN Adjusted(SmsShortWithUrl(sms_text, result))

\* MLDetector.detect_sms(sms_text, language)
DetectSms(sms_text, language) == SmsVerdict(sms_text, DetectText(sms_text, language))

(***************************************************************************)
(* utils/validators.py                                                     *)
(***************************************************************************)

HostChars == Range(UpperChars) \cup Range(LowerChars) \cup DigitChars \cup {"-", "."}

\* validators.url(url) of the validators package, which is no code of this
\* repository: http(s)://host[:port][/...] with a dotted host of letters,
\* digits and hyphens, and no whitespace anywhere
ValidatorsUrl(url) ==
  LET rest == StripProtocol(url)
      cut == FindAny(rest, {"/", "?", "#", ":"})
      host == IF cut = 0 THEN rest ELSE SubSeq(rest, 1, cut - 1)
  IN /\ rest # url
     /\ host # ""
     /\ \A i \in 1..Len(host) : CharAt(host, i) \in HostChars
     /\ Contains(host, ".")
     /\ CharAt(host, 1) \notin {"-", "."}
     /\ CharAt(host, Len(host)) \notin {"-", "."}
     /\ ~Contains(host, "..")
     /\ \A i \in 1..Len(url) : ~IsSpace(CharAt(url, i))

\* validate_url(url): (is_valid, the url with its protocol or the error message)
ValidateUrl(url) ==
  LET with_protocol == IF StartsWith(url, "http://") \/ StartsWith(url, "https://")
                       THEN url ELSE "http://" \o url
  IN IF url = "" THEN [is_valid |-> FALSE, value |-> "URL cannot be empty"]
     ELSE IF ValidatorsUrl(with_protocol) THEN [is_valid |-> TRUE, value |-> with_protocol]
     ELSE [is_valid |-> FALSE, value |-> "Invalid URL format"]

\* validate_text without its test for an empty text
ValidateTextAcceptsEmpty(text) ==
  IF Len(text) > 10000
  THEN [is_valid |-> FALSE, value |-> "Text too long (max 10000 characters)"]
  ELSE [is_valid |-> TRUE, value |-> Strip(text)]

\* validate_text(text): (is_valid, the stripped text or the error message)
ValidateText(text) ==
  IF text = "" \/ Len(Strip(text)) = 0
  THEN [is_valid |-> FALSE, value |-> "Text cannot be empty"]
  ELSE IF Len(text) > 10000
  THEN [is_valid |-> FALSE, value |-> "Text too long (max 10000 characters)"]
  ELSE [is_valid |-> TRUE, value |-> Strip(text)]

\* validators.extract_domain(url)
extract_domain(url) ==
  Lower(StripWww(SplitFirst(SplitFirst(StripProtocol(url), "/"), ":")))

(***************************************************************************)
(* app.py: the scan endpoints, served by concurrent workers.  A worker     *)
(* runs one request at a time; a step of a request ends at each call of    *)
(* the database, which is what other requests can observe or fail at.      *)
(* The measured response time is left out of verdicts and statistics.      *)
(***************************************************************************)

Workers == {"w1", "w2"}

\* how many requests a behaviour serves
MaxRequests == 2

\* request bodies: the 'url' values sent to /api/scan/url
UrlBodies ==
  { "https://google.com",
    "https://phishing-example.com",
    "https://example.com/update-payment",
    "http://192.168.1.1/login-verify-account",
    "http://malicious-bank.com/login/account",
    "http://bit.ly.tk/login/account",
    " bad.example.com ",
    "http://paypa1-secure-login.tk/@verify-account-update//confirm",
    "not a url",
    "" }

\* s + s
Twice(s) == s \o s

\* s * n
RECURSIVE Repeat(_, _)
Repeat(s, n) ==
  IF n = 0 THEN ""
  ELSE Twice(Repeat(s, n \div 2)) \o (IF n % 2 = 1 THEN s ELSE "")

\* a text one character longer than validate_text accepts
LongText == Repeat("0123456789", 1000) \o "0"

\* request bodies: the 'text' values sent to /api/scan/text and /api/scan/sms
TextBodies ==
  { "URGENT!!! Verify your bank account now http://bit.ly/xyz",
    "Acct locked http://t.co/a",
    "money transfer paypal winner prize claim free security",
    "Dear customer, your parcel could not be delivered today. Track it at https://a.tk or at http://[x soon",
    "   ",
    "",
    LongText }

Languages == {"english", "hindi"}

\* the rows of the blacklist table; no code of the repository writes it
BlacklistRows ==
  { [domain |-> "malicious-bank.com", category |-> "phishing"],
    [domain |-> "bad.example.com", category |-> "malware"] }

\* The pure computations of the handlers on the request bodies of the model,
\* each evaluated once: XOf[input] is X(input).
ValidateUrlOf == [raw \in UrlBodies |-> ValidateUrl(Strip(raw))]
ValidUrls == {ValidateUrlOf[raw].value : raw \in {r \in UrlBodies : ValidateUrlOf[r].is_valid}}
DetectUrlOf == [url \in ValidUrls |-> DetectUrl(url)]
CheckThreatOf == [url \in ValidUrls |-> CheckThreat(url, BlacklistRows)]
ValidateTextOf == [raw \in TextBodies |-> ValidateText(Strip(raw))]
ValidTexts == {ValidateTextOf[raw].value : raw \in {r \in TextBodies : ValidateTextOf[r].is_valid}}
DetectTextOf ==
  [text \in ValidTexts |-> [language \in Languages |-> DetectText(text, language)]]
DetectSmsOf ==
  [text \in ValidTexts |-> [language \in Languages |-> DetectSms(text, language)]]
TextAnalyzeOf ==
  [text \in ValidTexts |-> [language \in Languages |-> TextAnalyze(text, language)]]
EmbeddedUrlsOf ==
  [text \in ValidTexts |-> [language \in Languages |->
     EmbeddedUrls(TextAnalyze(text, language))]]
ExtractUrlsOf == [text \in ValidTexts |-> ExtractUrls(text)]
AnalyzedUrls == ValidUrls \cup UNION {Range(ExtractUrlsOf[text]) : text \in ValidTexts}
UrlAnalyzeOf == [url \in AnalyzedUrls |-> UrlAnalyze(url)]

VARIABLES
  pc,          \* pc[w]: where worker w stands in its handler
  req,         \* req[w]: the request of worker w and the handler's locals
  response,    \* response[w]: what the handler of worker w returned
  scans,       \* the scans table: the scan log, in insertion order
  statistics,  \* the statistics row
  blacklist,   \* the blacklist table
  started,     \* the number of requests received so far
  users,       \* the users table, in insertion order: the id of a row is its index
  user_settings, \* the user_settings table, in insertion order
  sessions,    \* the sessions table, in insertion order
  now,         \* datetime.now(), counted in days
  generated    \* the number of session tokens secrets.token_urlsafe has produced

\* the state the scan handlers and the analyzers never touch
authvars == <<users, user_settings, sessions, now, generated>>

vars == <<pc, req, response, scans, statistics, blacklist, started, authvars>>

NoRequest ==
  [kind |-> "none", raw |-> "", language |-> "", content |-> "",
   threat_info |-> None, result |-> None, calls |-> <<>>, analyzed |-> <<>>,
   raised |-> ""]

NoResponse == [status |-> 0, body |-> None]

Init ==
  /\ pc = [w \in Workers |-> "idle"]
  /\ req = [w \in Workers |-> NoRequest]
  /\ response = [w \in Workers |-> NoResponse]
  /\ scans = <<>>
  /\ statistics = [total_scans |-> 0, phishing_detected |-> 0]
  /\ blacklist = BlacklistRows
  /\ started = 0
  /\ users = <<>>
  /\ user_settings = <<>>
  /\ sessions = <<>>
  /\ now = 0
  /\ generated = 0

\* worker w can take a request; the server hands a request to w2 only while
\* w1 is busy
Ready(w) ==
  /\ pc[w] \in {"idle", "done"}
  /\ started < MaxRequests
  /\ w = "w2" => pc["w1"] \notin {"idle", "done"}

\* return jsonify(body), status
Return(w, status, body) ==
  /\ pc' = [pc EXCEPT ![w] = "done"]
  /\ response' = [response EXCEPT ![w] = [status |-> status, body |-> body]]

\* the except clause of a handler: return jsonify({'error': str(e)}), 500
Raise(w, message) == Return(w, 500, [error |-> message])

\* a call of the handler of worker w, appended to the history of its request
Called(w, name) == [req[w] EXCEPT !.calls = Append(@, name)]

\* the same call raising an exception
CalledAndRaised(w, name, by) == [Called(w, name) EXCEPT !.raised = by]

\* the boost without the recomputation of is_phishing
ApplyThreatIntelStalePhishing(result, threat_info) ==
  IF threat_info # None /\ threat_info.found
  THEN LET threat_score ==
             RMin(RAdd(result.threat_score, IntScore(GetThreatScore(threat_info))), 100)
       IN [result EXCEPT !.threat_score = threat_score,
                         !.risk_level = CalculateRiskLevel(threat_score)]
          @@ [threat_intelligence |-> threat_info]
  ELSE result

\* the boost without the second clamp
ApplyThreatIntelUnclamped(result, threat_info) ==
  IF threat_info # None /\ threat_info.found
  THEN LET threat_score ==
             RAdd(result.threat_score, IntScore(GetThreatScore(threat_info)))
       IN [result EXCEPT !.threat_score = threat_score,
                         !.risk_level = CalculateRiskLevel(threat_score),
                         !.is_phishing = RGeq(threat_score, 50)]
          @@ [threat_intelligence |-> threat_info]
  ELSE result

\* the boost storing what check_threat returned without testing it
ApplyThreatIntelAlways(result, threat_info) ==
  IF threat_info # None /\ threat_info.found
  THEN LET threat_score ==
             RMin(RAdd(result.threat_score, IntScore(GetThreatScore(threat_info))), 100)
       IN [result EXCEPT !.threat_score = threat_score,
                         !.risk_level = CalculateRiskLevel(threat_score),
                         !.is_phishing = RGeq(threat_score, 50)]
          @@ [threat_intelligence |-> threat_info]
  ELSE result @@ [threat_intelligence |-> threat_info]

\* the boost putting the threat-intelligence score in the place of the
\* score of detect_url
ApplyThreatIntelOverwriting(result, threat_info) ==
  IF threat_info # None /\ threat_info.found
  THEN LET threat_score == RMin(IntScore(GetThreatScore(threat_info)), 100)
       IN [result EXCEPT !.threat_score = threat_score,
                         !.risk_level = CalculateRiskLevel(threat_score),
                         !.is_phishing = RGeq(threat_score, 50)]
          @@ [threat_intelligence |-> threat_info]
  ELSE result

\* scan_url, lines 82-88: the verdict with the threat intelligence added
ApplyThreatIntel(result, threat_info) ==
  IF threat_info # None /\ threat_info.found
  THEN LET threat_score ==
             RMin(RAdd(result.threat_score, IntScore(GetThreatScore(threat_info))), 100)
       IN [result EXCEPT !.threat_score = threat_score,
                         !.risk_level = CalculateRiskLevel(threat_score),
                         !.is_phishing = RGeq(threat_score, 50)]
          @@ [threat_intelligence |-> threat_info]
  ELSE result

\* the row save_scan inserts
ScanRow(scan_type, content, result) ==
  [scan_type |-> scan_type, content |-> content, threat_score |-> result.threat_score,
   risk_level |-> result.risk_level, is_phishing |-> result.is_phishing,
   detected_patterns |-> result.indicators]

\* the content a handler stores: the url, text[:200], the whole sms
StoredContent(r) ==
  IF r.kind = "text" /\ Len(r.content) > 200 THEN SubSeq(r.content, 1, 200) ELSE r.content

\* scan_url up to its first database call: strip and validate the url
ScanUrl(w, raw) ==
  /\ Ready(w)
  /\ started' = started + 1
  /\ LET v == ValidateUrlOf[raw]
         r == [NoRequest EXCEPT !.kind = "url", !.raw = raw, !.calls = <<"validate_url">>]
     IN IF ~v.is_valid
        THEN /\ req' = [req EXCEPT ![w] = r]
             /\ Return(w, 400, [error |-> v.value])
        ELSE /\ req' = [req EXCEPT ![w] = [r EXCEPT !.content = v.value]]
             /\ pc' = [pc EXCEPT ![w] = "check_threat"]
             /\ response' = [response EXCEPT ![w] = NoResponse]
  /\ UNCHANGED <<scans, statistics, blacklist, authvars>>

\* threat_intel.check_threat(validated_url), the blacklist store answering
CheckThreatStep(w) ==
  /\ pc[w] = "check_threat"
  /\ req' = [req EXCEPT ![w] =
               [Called(w, "check_threat") EXCEPT
                  !.threat_info = CheckThreatOf[req[w].content]]]
  /\ pc' = [pc EXCEPT ![w] = "detect_url"]
  /\ UNCHANGED <<response, scans, statistics, blacklist, started, authvars>>

\* threat_intel.check_threat(validated_url), check_blacklist raising: nothing
\* in check_threat catches, so the handler's except clause answers
CheckThreatRaises(w) ==
  /\ pc[w] = "check_threat"
  /\ req' = [req EXCEPT ![w] = CalledAndRaised(w, "check_threat", "check_blacklist")]
  /\ Raise(w, "blacklist store unavailable")
  /\ UNCHANGED <<scans, statistics, blacklist, started, authvars>>

\* detect_url running without waiting for the threat-intelligence lookup
DetectUrlStepUnordered(w) ==
  /\ pc[w] \in {"check_threat", "detect_url"}
  /\ req' = [req EXCEPT ![w] =
               [Called(w, "detect_url") EXCEPT
                  !.analyzed = <<req[w].content>>,
                  !.result = ApplyThreatIntel(DetectUrlOf[req[w].content], req[w].threat_info)]]
  /\ pc' = [pc EXCEPT ![w] = "save_scan"]
  /\ UNCHANGED <<response, scans, statistics, blacklist, started, authvars>>

\* ml_detector.detect_url(validated_url), then the threat-intelligence boost
DetectUrlStep(w) ==
  /\ pc[w] = "detect_url"
  /\ req' = [req EXCEPT ![w] =
               [Called(w, "detect_url") EXCEPT
                  !.analyzed = <<req[w].content>>,
                  !.result = ApplyThreatIntel(DetectUrlOf[req[w].content], req[w].threat_info)]]
  /\ pc' = [pc EXCEPT ![w] = "save_scan"]
  /\ UNCHANGED <<response, scans, statistics, blacklist, started, authvars>>

\* scan_text and scan_sms up to their first database call: strip and
\* validate the text, then detect.  The language is a local nothing reads
\* before detect, so a rejected request does not record it.
ScanText(w, kind, raw, language) ==
  /\ Ready(w)
  /\ started' = started + 1
  /\ LET v == ValidateTextOf[raw]
         r == [NoRequest EXCEPT !.kind = kind, !.raw = raw,
                                !.calls = <<"validate_text">>]
     IN IF ~v.is_valid
        THEN /\ req' = [req EXCEPT ![w] = r]
             /\ Return(w, 400, [error |-> v.value])
        ELSE /\ req' = [req EXCEPT ![w] =
                          [r EXCEPT !.language = language,
                                    !.content = v.value,
                                    !.calls = Append(@, IF kind = "sms" THEN "detect_sms"
                                                        ELSE "detect_text"),
                                    !.analyzed = EmbeddedUrlsOf[v.value][language],
                                    !.result = IF kind = "sms"
                                               THEN DetectSmsOf[v.value][language]
                                               ELSE DetectTextOf[v.value][language]]]
             /\ pc' = [pc EXCEPT ![w] = "save_scan"]
             /\ response' = [response EXCEPT ![w] = NoResponse]
  /\ UNCHANGED <<scans, statistics, blacklist, authvars>>

\* save_scan(...): the row is inserted and committed
SaveScanStep(w) ==
  /\ pc[w] = "save_scan"
  /\ scans' = Append(scans, ScanRow(req[w].kind, StoredContent(req[w]), req[w].result))
  /\ req' = [req EXCEPT ![w] = Called(w, "save_scan")]
  /\ pc' = [pc EXCEPT ![w] = "update_statistics"]
  /\ UNCHANGED <<response, statistics, blacklist, started, authvars>>

\* save_scan(...) raising: no row, the handler's except clause answers
SaveScanRaises(w) ==
  /\ pc[w] = "save_scan"
  /\ req' = [req EXCEPT ![w] = CalledAndRaised(w, "save_scan", "save_scan")]
  /\ Raise(w, "scan log unavailable")
  /\ UNCHANGED <<scans, statistics, blacklist, started, authvars>>

\* update_statistics(total_scans=1, phishing_detected=...), then the handler
\* returns the verdict
UpdateStatisticsStep(w) ==
  /\ pc[w] = "update_statistics"
  /\ statistics' =
       [total_scans |-> statistics.total_scans + 1,
        phishing_detected |-> statistics.phishing_detected
                              + (IF req[w].result.is_phishing THEN 1 ELSE 0)]
  /\ req' = [req EXCEPT ![w] = Called(w, "update_statistics")]
  /\ Return(w, 200, req[w].result)
  /\ UNCHANGED <<scans, blacklist, started, authvars>>

\* update_statistics(...) raising: the row of save_scan stays, the handler's
\* except clause answers
UpdateStatisticsRaises(w) ==
  /\ pc[w] = "update_statistics"
  /\ req' = [req EXCEPT ![w] =
               CalledAndRaised(w, "update_statistics", "update_statistics")]
  /\ Raise(w, "statistics unavailable")
  /\ UNCHANGED <<scans, statistics, blacklist, started, authvars>>

Next ==
  \E w \in Workers :
    \/ \E raw \in UrlBodies : ScanUrl(w, raw)
    \/ CheckThreatStep(w)
    \/ CheckThreatRaises(w)
    \/ DetectUrlStep(w)
    \/ \E kind \in {"text", "sms"} : \E raw \in TextBodies : \E language \in Languages :
         ScanText(w, kind, raw, language)
    \/ SaveScanStep(w)
    \/ SaveScanRaises(w)
    \/ UpdateStatisticsStep(w)
    \/ UpdateStatisticsRaises(w)

Spec == Init /\ [][Next]_vars

(***************************************************************************)
(* The detector called directly: MLDetector.detect_url, detect_text and    *)
(* detect_sms, running the checks of the analyzers one at a time on the    *)
(* results dict of the call, ThreatIntelligence.check_threat and           *)
(* validators.extract_domain.  Worker w holds the call in req[w]: its      *)
(* argument in raw, the results dict of the analyzer in result, the        *)
(* numbers of the checks applied so far in calls; once the detector has    *)
(* returned, the verdict in result and the analyzer's results in content.  *)
(* A call of check_threat or extract_domain leaves the domain in content.  *)
(***************************************************************************)

\* the arguments of detect_url, check_threat and extract_domain: urls the
\* handlers analyze (the last one does not parse), and urls with a port and
\* 'www.', with 'WWW.', with a listed domain and a known pattern, with two suspicious TLDs,
\* with a suspicious TLD in the path only, longer than 100 characters, empty
DetectorUrls ==
  { "http://192.168.1.1/login-verify-account",
    "http://malicious-bank.com/login/account",
    "http://paypa1-secure-login.tk/@verify-account-update//confirm",
    "http://t.co/a",
    "https://a.tk",
    "http://[x",
    "https://www.Google.com:8080/a",
    "https://WWW.Example.com/a",
    "https://phishing-example.com/verify-account",
    "http://login.top/update.xyz",
    "https://example.com/report.xyz",
    "https://example.com/downloads/archive/2024/reports/quarterly/summary/final/version-two/document-index.html",
    "" }

\* the arguments of detect_text and detect_sms: two texts the handlers pass
\* (one url; two urls, one of which does not parse), a text of 100 characters
\* with keywords of the hindi and tamil dictionaries only, a text of 101
\* characters that two credential patterns match
DetectorTexts ==
  { "Acct locked http://t.co/a",
    "Dear customer, your parcel could not be delivered today. Track it at https://a.tk or at http://[x soon",
    "Namaste ~hi-1~ and ~ta-2~: the quarterly meeting moved to Thursday at ten in room four, bring notes ",
    "Reminder from the library: please enter your password and card number cvv at the desk before noon oka" }

\* the language arguments of detect_text and detect_sms: two languages with a
\* dictionary and one without
DetectorLanguages == {"english", "hindi", "french"}

\* The pure computations on the arguments above, each evaluated once.
UrlParseOf == [url \in DetectorUrls |-> UrlParse(url)]
UrlChecksOf == [url \in DetectorUrls |-> UrlChecks(url, UrlDomain(UrlParseOf[url]))]
UrlResultsOf == [url \in DetectorUrls |-> UrlAnalyze(url)]
UrlVerdictOf == [url \in DetectorUrls |-> UrlVerdict(url, UrlResultsOf[url])]
TextChecksOf == [text \in DetectorTexts |-> TextChecks(text)]
TextDetailsOf == [text \in DetectorTexts |-> TextDetails(text)]
TextResultsOf ==
  [text \in DetectorTexts |-> [language \in DetectorLanguages |-> TextAnalyze(text, language)]]
UrlScoresOf ==
  [text \in DetectorTexts |-> [language \in DetectorLanguages |->
     [i \in DOMAIN EmbeddedUrls(TextResultsOf[text][language]) |->
        UrlResultsOf[EmbeddedUrls(TextResultsOf[text][language])[i]].score]]]
TextVerdictOf ==
  [text \in DetectorTexts |-> [language \in DetectorLanguages |->
     TextVerdict(text, language, TextResultsOf[text][language],
                 UrlScoresOf[text][language])]]
SmsVerdictOf ==
  [text \in DetectorTexts |-> [language \in DetectorLanguages |->
     SmsVerdict(text, TextVerdictOf[text][language])]]
ThreatOf == [url \in DetectorUrls |-> CheckThreat(url, BlacklistRows)]
ThreatDomainOf == [url \in DetectorUrls |-> ExtractDomain(url)]
ValidatorsDomainOf == [url \in DetectorUrls |-> extract_domain(url)]

\* a call of worker w has not begun or has returned
Free(w) == pc[w] \in {"idle", "done"}

\* worker w can begin a call; w2 begins one only while a call of w1 is running
CanBegin(w) == Free(w) /\ (w = "w2" => ~Free("w1"))

\* the running score and the indicator list kept on the shared analyzer
\* instead of in a local of the call: a call reads what the other running
\* call left there
AccumulatorShared(w) ==
  LET other == CHOOSE v \in Workers : v # w
  IN IF pc[other] = "checks"
     THEN [req[w].result EXCEPT !.score = req[other].result.score,
                                !.indicators = req[other].result.indicators]
     ELSE req[w].result

\* the results dict the running call of worker w appends to: a local of the
\* call
Accumulator(w) == req[w].result

\* the checks of the analyzer the call of worker w runs
ChecksOf(r) == IF r.kind = "detect_url" THEN UrlChecksOf[r.raw] ELSE TextChecksOf[r.raw]

\* url_scores of detect_text, from the urls the results dict carries
EmbeddedScores(results) ==
  LET urls == EmbeddedUrls(results)
  IN [i \in DOMAIN urls |-> UrlResultsOf[urls[i]].score]

\* the early exit without its return: the checks go on after the failed parse
AnalyzeUrlBeginNoExit(w, url) ==
  /\ CanBegin(w)
  /\ req' = [req EXCEPT ![w] =
               [NoRequest EXCEPT
                  !.kind = "detect_url", !.raw = url,
                  !.result =
                    IF ~UrlParseOf[url].ok
                    THEN [url |-> url, indicators |-> <<"Invalid URL format">>,
                          score |-> 30, details |-> EmptyDict]
                    ELSE [url |-> url, indicators |-> <<>>, score |-> 0,
                          details |-> EmptyDict, domain |-> UrlDomain(UrlParseOf[url])]]]
  /\ pc' = [pc EXCEPT ![w] = "checks"]
  /\ UNCHANGED <<response, scans, statistics, blacklist, started, authvars>>

\* detect_url(url) entering URLAnalyzer.analyze: the results dict, then
\* urlparse; an unparseable url returns at once
AnalyzeUrlBegin(w, url) ==
  /\ CanBegin(w)
  /\ LET results == [url |-> url, indicators |-> <<>>, score |-> 0, details |-> EmptyDict]
         parsed == UrlParseOf[url]
         r == [NoRequest EXCEPT !.kind = "detect_url", !.raw = url]
     IN IF ~parsed.ok
        THEN /\ req' = [req EXCEPT ![w] =
                          [r EXCEPT !.result =
                             ApplyCheck(Check(TRUE, 30, "Invalid URL format"), results)]]
             /\ pc' = [pc EXCEPT ![w] = "verdict"]
        ELSE /\ req' = [req EXCEPT ![w] =
                          [r EXCEPT !.result = results @@ [domain |-> UrlDomain(parsed)]]]
             /\ pc' = [pc EXCEPT ![w] = "checks"]
  /\ UNCHANGED <<response, scans, statistics, blacklist, started, authvars>>

\* detect_text(text, language), detect_sms(text, language) entering
\* TextAnalyzer.analyze: the results dict
AnalyzeTextBegin(w, kind, text, language) ==
  /\ CanBegin(w)
  /\ req' = [req EXCEPT ![w] =
               [NoRequest EXCEPT
                  !.kind = kind, !.raw = text, !.language = language,
                  !.result = [text_length |-> Len(text), indicators |-> <<>>, score |-> 0,
                              details |-> EmptyDict, language |-> language]]]
  /\ pc' = [pc EXCEPT ![w] = "checks"]
  /\ UNCHANGED <<response, scans, statistics, blacklist, started, authvars>>

\* the next check of the analyzer on the results dict of the call
AnalyzeCheckStep(w) ==
  /\ pc[w] = "checks"
  /\ LET k == Len(req[w].calls) + 1
         checks == ChecksOf(req[w])
     IN /\ req' = [req EXCEPT ![w] =
                     [req[w] EXCEPT !.calls = Append(@, k),
                                    !.result = ApplyCheck(checks[k], Accumulator(w))]]
        /\ pc' = [pc EXCEPT ![w] = IF k = Len(checks) THEN "details" ELSE "checks"]
  /\ UNCHANGED <<response, scans, statistics, blacklist, started, authvars>>

\* the analyzer returns its results dict, the details filled in
AnalyzeReturn(w) ==
  /\ pc[w] = "details"
  /\ req' = [req EXCEPT ![w] =
               [req[w] EXCEPT !.result =
                  [@ EXCEPT !.details =
                     IF req[w].kind = "detect_url"
                     THEN UrlDetails(UrlParseOf[req[w].raw], req[w].result.domain)
                     ELSE TextDetailsOf[req[w].raw]]]]
  /\ pc' = [pc EXCEPT ![w] = "verdict"]
  /\ UNCHANGED <<response, scans, statistics, blacklist, started, authvars>>

\* the detector builds the verdict from the results dict and returns it
DetectReturn(w) ==
  /\ pc[w] = "verdict"
  /\ LET r == req[w]
         text_verdict == TextVerdict(r.raw, r.language, r.result, EmbeddedScores(r.result))
     IN req' = [req EXCEPT ![w] =
                  [r EXCEPT
                     !.analyzed = IF r.kind = "detect_url" THEN <<r.raw>>
                                  ELSE EmbeddedUrls(r.result),
                     !.content = r.result,
                     !.result = IF r.kind = "detect_url" THEN UrlVerdict(r.raw, r.result)
                                ELSE IF r.kind = "detect_text" THEN text_verdict
                                ELSE SmsVerdict(r.raw, text_verdict)]]
  /\ pc' = [pc EXCEPT ![w] = "done"]
  /\ UNCHANGED <<response, scans, statistics, blacklist, started, authvars>>

\* threat_intel.check_threat(url), the blacklist store answering
CheckThreatCall(w, url) ==
  /\ CanBegin(w)
  /\ blacklist = BlacklistRows
  /\ req' = [req EXCEPT ![w] =
               [NoRequest EXCEPT !.kind = "check_threat", !.raw = url,
                                 !.content = ThreatDomainOf[url],
                                 !.threat_info = ThreatOf[url]]]
  /\ pc' = [pc EXCEPT ![w] = "done"]
  /\ UNCHANGED <<response, scans, statistics, blacklist, started, authvars>>

\* validators.extract_domain(url)
ExtractDomainCall(w, url) ==
  /\ CanBegin(w)
  /\ req' = [req EXCEPT ![w] =
               [NoRequest EXCEPT !.kind = "extract_domain", !.raw = url,
                                 !.content = ValidatorsDomainOf[url]]]
  /\ pc' = [pc EXCEPT ![w] = "done"]
  /\ UNCHANGED <<response, scans, statistics, blacklist, started, authvars>>

\* the domain a call of check_threat or extract_domain extracted, passed to
\* the same extraction again
ExtractDomainAgain(w) ==
  /\ pc[w] = "done"
  /\ req[w].kind \in {"check_threat", "extract_domain"}
  /\ req' = [req EXCEPT ![w] =
               [NoRequest EXCEPT
                  !.kind = IF req[w].kind = "check_threat" THEN "_extract_domain again"
                           ELSE "extract_domain again",
                  !.raw = req[w].content,
                  !.content = IF req[w].kind = "check_threat"
                              THEN ExtractDomain(req[w].content)
                              ELSE extract_domain(req[w].content)]]
  /\ UNCHANGED <<pc, response, scans, statistics, blacklist, started, authvars>>

DetectorNext ==
  \E w \in Workers :
    \/ \E url \in DetectorUrls : AnalyzeUrlBegin(w, url)
    \/ \E kind \in {"detect_text", "detect_sms"} : \E text \in DetectorTexts :
         \E language \in DetectorLanguages : AnalyzeTextBegin(w, kind, text, language)
    \/ AnalyzeCheckStep(w)
    \/ AnalyzeReturn(w)
    \/ DetectReturn(w)
    \/ \E url \in DetectorUrls : CheckThreatCall(w, url)
    \/ \E url \in DetectorUrls : ExtractDomainCall(w, url)
    \/ ExtractDomainAgain(w)

DetectorSpec == Init /\ [][DetectorNext]_vars

(***************************************************************************)
(* The analyzers with their checks applied in any order and their tables   *)
(* iterated in another order.  The call of worker w holds the order of     *)
(* the tables in req[w].order and the numbers of the checks applied so far *)
(* in req[w].applied.                                                      *)
(***************************************************************************)

\* the orders in which a table is iterated
TableOrders == {"as written", "reversed", "rotated"}

\* the table in one of these orders
Permuted(table, order) ==
  IF order = "reversed" THEN [i \in DOMAIN table |-> table[Len(table) + 1 - i]]
  ELSE IF order = "rotated" THEN [i \in DOMAIN table |-> table[(i % Len(table)) + 1]]
  ELSE table

\* keyword_count and its check, over a table of keywords
UrlKeywordCheck(url, keywords) ==
  LET Counted(keyword_count) ==
        Check(keyword_count >= 2, keyword_count * 10,
              "Contains " \o IntToStr(keyword_count) \o " suspicious keywords")
  IN Counted(Len(SelectSeq(keywords, LAMBDA kw : Contains(Lower(url), kw))))

\* the loop over the suspicious TLDs, over a table of TLDs: the first one the
\* lowercased url contains ends the loop
RECURSIVE TldLoop(_, _)
TldLoop(url_lower, tlds) ==
  IF tlds = <<>> THEN Check(FALSE, 20, "Suspicious TLD: ")
  ELSE IF Contains(url_lower, Head(tlds)) THEN Check(TRUE, 20, "Suspicious TLD: " \o Head(tlds))
  ELSE TldLoop(url_lower, Tail(tlds))

\* any(shortener in domain.lower() for shortener in shorteners), over a table
ShortenerCheck(domain, table) ==
  Check(\E k \in DOMAIN table : Contains(Lower(domain), table[k]), 15,
        "URL shortener detected")

\* the checks of URLAnalyzer.analyze with the tables in the given order
PermutedUrlChecks(url, order) ==
  [UrlChecksOf[url] EXCEPT
     ![3] = UrlKeywordCheck(url, Permuted(suspicious_keywords, order)),
     ![4] = TldLoop(Lower(url), Permuted(suspicious_tlds, order)),
     ![10] = ShortenerCheck(UrlDomain(UrlParseOf[url]), Permuted(shorteners, order))]

\* the keyword check of TextAnalyzer.analyze, over the dictionaries in a
\* given order
TextKeywordCheck(text, keywords) ==
  LET Counted(n) ==
        Check(n > 0, n * 5, "Found " \o IntToStr(n) \o " phishing keywords")
  IN Counted(Len(SelectSeq(keywords,
                           LAMBDA kw : Contains(Lower(text), kw) \/ Contains(text, kw))))

\* the loop over credential_patterns without its break: every pattern that
\* matches adds 30
CredentialLoopNoBreak(matches) ==
  Check(\E k \in DOMAIN matches : matches[k],
        30 * Cardinality({k \in DOMAIN matches : matches[k]}),
        "Requests sensitive credentials")

\* the loop over credential_patterns, over the results of the patterns in
\* the order they are tried: the first match ends the loop
RECURSIVE CredentialLoop(_)
CredentialLoop(matches) ==
  IF matches = <<>> THEN Check(FALSE, 30, "Requests sensitive credentials")
  ELSE IF Head(matches) THEN Check(TRUE, 30, "Requests sensitive credentials")
  ELSE CredentialLoop(Tail(matches))

\* the checks of TextAnalyzer.analyze with the tables in the given order
PermutedTextChecks(text, order) ==
  LET Counted(urgency_count, financial_count, brand_count) ==
        [TextChecksOf[text] EXCEPT
           ![1] = TextKeywordCheck(text, Permuted(phishing_keywords, order)),
           ![2] = Check(urgency_count > 0, urgency_count * 10,
                        "Contains " \o IntToStr(urgency_count) \o " urgency indicators"),
           ![3] = Check(financial_count >= 2, financial_count * 8,
                        "Contains " \o IntToStr(financial_count) \o " financial keywords"),
           ![8] = CredentialLoop(Permuted(CredentialMatches(Lower(text)), order)),
           ![10] = Check(brand_count > 0 /\ urgency_count > 0, 25,
                         "Brand impersonation with urgency")]
      CountIn(table) ==
        Len(SelectSeq(Permuted(table, order), LAMBDA word : Contains(Lower(text), word)))
  IN Counted(CountIn(urgency_words), CountIn(financial_words), CountIn(text_brands))

\* the arguments of the analyzers: urls with three to six checks that fire,
\* one of them with two suspicious TLDs, and one that does not parse; texts
\* with three checks that fire or more
OrderUrls ==
  { "http://192.168.1.1/login-verify-account",
    "http://paypa1-secure-login.tk/@verify-account-update//confirm",
    "http://login.top/update.xyz",
    "http://[x" }

OrderTexts ==
  { "Acct locked http://t.co/a",
    "Reminder from the library: please enter your password and card number cvv at the desk before noon oka" }

PermutedUrlChecksOf ==
  [url \in {u \in OrderUrls : UrlParseOf[u].ok} |->
     [order \in TableOrders |-> PermutedUrlChecks(url, order)]]
PermutedTextChecksOf ==
  [text \in OrderTexts |-> [order \in TableOrders |-> PermutedTextChecks(text, order)]]

\* the checks of the call of worker w, its tables in the order of the call
PermutedChecksOf(r) ==
  IF r.kind = "analyze_url" THEN PermutedUrlChecksOf[r.raw][r.order]
  ELSE PermutedTextChecksOf[r.raw][r.order]

\* URLAnalyzer.analyze(url) begins: the results dict, then urlparse; an
\* unparseable url returns at once
PermutedUrlBegin(w, url, order) ==
  /\ Free(w)
  /\ LET results == [url |-> url, indicators |-> <<>>, score |-> 0, details |-> EmptyDict]
         r == [NoRequest EXCEPT !.kind = "analyze_url", !.raw = url]
              @@ [order |-> order, applied |-> {}]
     IN IF ~UrlParseOf[url].ok
        THEN /\ req' = [req EXCEPT ![w] =
                          [r EXCEPT !.result =
                             ApplyCheck(Check(TRUE, 30, "Invalid URL format"), results)]]
             /\ pc' = [pc EXCEPT ![w] = "done"]
        ELSE /\ req' = [req EXCEPT ![w] =
                          [r EXCEPT !.result =
                             results @@ [domain |-> UrlDomain(UrlParseOf[url])]]]
             /\ pc' = [pc EXCEPT ![w] = "permuted_checks"]
  /\ UNCHANGED <<response, scans, statistics, blacklist, started, authvars>>

\* TextAnalyzer.analyze(text) begins: the results dict
PermutedTextBegin(w, text, order) ==
  /\ Free(w)
  /\ req' = [req EXCEPT ![w] =
               [NoRequest EXCEPT
                  !.kind = "analyze_text", !.raw = text, !.language = "english",
                  !.result = [text_length |-> Len(text), indicators |-> <<>>, score |-> 0,
                              details |-> EmptyDict, language |-> "english"]]
               @@ [order |-> order, applied |-> {}]]
  /\ pc' = [pc EXCEPT ![w] = "permuted_checks"]
  /\ UNCHANGED <<response, scans, statistics, blacklist, started, authvars>>

\* any check not applied yet is applied next; after the last one the
\* analyzer returns
PermutedCheckStep(w) ==
  /\ pc[w] = "permuted_checks"
  /\ LET checks == PermutedChecksOf(req[w])
     IN \E k \in DOMAIN checks \ req[w].applied :
          /\ req' = [req EXCEPT ![w] =
                       [req[w] EXCEPT !.applied = @ \cup {k},
                                      !.result = ApplyCheck(checks[k], req[w].result)]]
          /\ pc' = [pc EXCEPT ![w] =
                      IF req[w].applied \cup {k} = DOMAIN checks THEN "done"
                      ELSE "permuted_checks"]
  /\ UNCHANGED <<response, scans, statistics, blacklist, started, authvars>>

\* one call at a time: the order of the checks within a call is what varies
OrderNext ==
  \E w \in {"w1"} :
    \/ \E url \in OrderUrls : \E order \in TableOrders : PermutedUrlBegin(w, url, order)
    \/ \E text \in OrderTexts : \E order \in TableOrders : PermutedTextBegin(w, text, order)
    \/ PermutedCheckStep(w)

OrderSpec == Init /\ [][OrderNext]_vars

(***************************************************************************)
(* Properties of the verdicts                                              *)
(***************************************************************************)

\* the verdicts the request of worker w has produced so far: the one its
\* handler holds, the one detect_url returned before the boost, and the one
\* detect_text returned inside detect_sms
Produced(w) ==
  IF req[w].result = None THEN {}
  ELSE {req[w].result}
       \cup (IF req[w].kind = "url" THEN {DetectUrlOf[req[w].content]} ELSE {})
       \cup (IF req[w].kind = "sms"
             THEN {DetectTextOf[req[w].content][req[w].language]} ELSE {})

\* worker w has returned a verdict
Answered(w) == pc[w] = "done" /\ response[w].status = 200

\* the url verdict of worker w carries a threat-intelligence match
Boosted(w) ==
  /\ req[w].kind = "url"
  /\ req[w].result # None
  /\ "threat_intelligence" \in DOMAIN req[w].result

\* the 1-based position of the first x in seq, 0 when x is not in seq
Pos(seq, x) ==
  IF \E i \in DOMAIN seq : seq[i] = x
  THEN CHOOSE i \in DOMAIN seq : seq[i] = x /\ \A j \in 1..(i - 1) : seq[j] # x
  ELSE 0

\* C1: every verdict of detect_url, detect_text, detect_sms and of scan_url
\* after the threat-intelligence boost has 0 <= threat_score <= 100.
C1_ScoreInRange ==
  \A w \in Workers : \A v \in Produced(w) :
    v.threat_score.n >= 0 /\ v.threat_score.n <= 100 * v.threat_score.d

\* a url whose analyzer score alone exceeds 100 was boosted and returned at 100
C1_Witness ==
  \E w \in Workers :
    /\ Answered(w) /\ Boosted(w)
    /\ UrlAnalyzeOf[req[w].content].score > 100
    /\ response[w].body.threat_score = IntScore(100)

\* C2: in every verdict, is_phishing is true iff the final threat_score >= 50.
C2_PhishingIffScore ==
  \A w \in Workers : \A v \in Produced(w) :
    v.is_phishing <=> v.threat_score.n >= 50 * v.threat_score.d

\* a boost turned a verdict detect_url rated not phishing into a phishing one
C2_Witness ==
  \E w \in Workers :
    /\ Answered(w) /\ Boosted(w)
    /\ ~DetectUrlOf[req[w].content].is_phishing
    /\ response[w].body.is_phishing

\* C3: in every verdict, risk_level is the step function of the final
\* threat_score: 100 -> Critical, 75..99 -> High, 50..74 -> Medium, below 50 -> Low.
C3_RiskLevelIsStep ==
  \A w \in Workers : \A v \in Produced(w) :
    LET n == v.threat_score.n
        d == v.threat_score.d
    IN /\ n >= 100 * d => v.risk_level = "Critical"
       /\ n >= 75 * d /\ n < 100 * d => v.risk_level = "High"
       /\ n >= 50 * d /\ n < 75 * d => v.risk_level = "Medium"
       /\ n < 50 * d => v.risk_level = "Low"

\* the boundary 49 | 50: one returned verdict at exactly 50 (after a boost),
\* another at exactly 49
C3_Witness ==
  \E w1 \in Workers : \E w2 \in Workers :
    /\ Answered(w1) /\ Boosted(w1)
    /\ response[w1].body.threat_score = IntScore(50)
    /\ response[w1].body.risk_level = "Medium"
    /\ Answered(w2)
    /\ response[w2].body.threat_score = IntScore(49)
    /\ response[w2].body.risk_level = "Low"

\* C4: in every verdict, confidence is the step function of the final
\* threat_score (>= 75 -> 95, >= 50 -> 85, >= 25 -> 70, else 60).
C4_ConfidenceIsStep ==
  \A w \in Workers : \A v \in Produced(w) :
    LET n == v.threat_score.n
        d == v.threat_score.d
    IN v.confidence = IF n >= 75 * d THEN 95
                      ELSE IF n >= 50 * d THEN 85
                      ELSE IF n >= 25 * d THEN 70
                      ELSE 60

\* C5: in every verdict, recommendation is the canned string of the final
\* risk_level.
C5_RecommendationByRisk ==
  \A w \in Workers : \A v \in Produced(w) :
    v.recommendation = GetRecommendation(v.risk_level)

\* C6: on the url path with a threat-intelligence match, the final
\* threat_score is min(raw analyzer score + threat-intelligence score, 100).
C6_BoostedScore ==
  \A w \in Workers :
    Boosted(w) =>
      LET total == UrlAnalyzeOf[req[w].content].score
                   + GetThreatScore(req[w].threat_info)
      IN req[w].result.threat_score = IntScore(IF total < 100 THEN total ELSE 100)

\* raw 40 + Critical 50 returned as 90, High, phishing; and a url whose raw
\* score exceeds 100 returned at 100
C6_Witness ==
  \E w1 \in Workers : \E w2 \in Workers :
    /\ Answered(w1) /\ Boosted(w1)
    /\ UrlAnalyzeOf[req[w1].content].score = 40
    /\ req[w1].threat_info.severity = "Critical"
    /\ response[w1].body.threat_score = IntScore(90)
    /\ response[w1].body.risk_level = "High"
    /\ response[w1].body.is_phishing
    /\ Answered(w2) /\ Boosted(w2)
    /\ UrlAnalyzeOf[req[w2].content].score > 100
    /\ response[w2].body.threat_score = IntScore(100)

\* C7, as stated: in a url scan, check_threat never runs before detect_url.
C7_LookupNeverBeforeAnalysis ==
  \A w \in Workers :
    req[w].kind = "url" =>
      ~(Pos(req[w].calls, "check_threat") > 0 /\ Pos(req[w].calls, "detect_url") = 0)

\* C7, amended: in a url scan, check_threat runs before detect_url, and the
\* handler holds no verdict, boosted or not, before detect_url has run.
C7_LookupThenAnalysisThenBoost ==
  \A w \in Workers :
    req[w].kind = "url" =>
      /\ Pos(req[w].calls, "detect_url") > 0 =>
           /\ Pos(req[w].calls, "check_threat") > 0
           /\ Pos(req[w].calls, "check_threat") < Pos(req[w].calls, "detect_url")
      /\ req[w].result # None => Pos(req[w].calls, "detect_url") > 0

\* a url scan that ran both calls and returned a boosted verdict
C7_Witness ==
  \E w \in Workers :
    /\ Answered(w) /\ Boosted(w)
    /\ Pos(req[w].calls, "check_threat") > 0
    /\ Pos(req[w].calls, "detect_url") > 0
    /\ response[w].body.threat_score # DetectUrlOf[req[w].content].threat_score

\* C8: if check_blacklist raises during a url scan, the request still returns
\* a verdict: no error, no threat_intelligence, and the score of detect_url.
C8_StoreFailureStillVerdict ==
  \A w \in Workers :
    (pc[w] = "done" /\ req[w].raised = "check_blacklist") =>
      /\ response[w].status = 200
      /\ "threat_intelligence" \notin DOMAIN response[w].body
      /\ response[w].body.threat_score = DetectUrlOf[req[w].content].threat_score

\* C9: detect_sms returns the detect_text verdict with type 'sms'; a text
\* shorter than 100 with an extracted url scores min(detect_text score + 15, 100)
\* and gets the short-message indicator once; any other text keeps the score
\* and the indicators of detect_text.
C9_SmsAdjustment ==
  \A w \in Workers :
    (req[w].kind = "sms" /\ req[w].result # None) =>
      LET t == DetectTextOf[req[w].content][req[w].language]
          s == req[w].result
          short == Len(req[w].content) < 100 /\ ExtractUrlsOf[req[w].content] # <<>>
          note == "Short message with URL (common in SMS phishing)"
          n15 == t.threat_score.n + 15 * t.threat_score.d
      IN /\ s.type = "sms"
         /\ s.content = t.content
         /\ s.details = t.details
         /\ s.language = t.language
         /\ IF short
            THEN /\ s.threat_score = IF n15 <= 100 * t.threat_score.d
                                     THEN [n |-> n15, d |-> t.threat_score.d]
                                     ELSE IntScore(100)
                 /\ s.indicators = Append(t.indicators, note)
                 /\ Cardinality({i \in DOMAIN s.indicators : s.indicators[i] = note}) = 1
            ELSE /\ s.threat_score = t.threat_score
                 /\ s.indicators = t.indicators

\* a short sms with a url returned 15 above its detect_text score, and a
\* long sms with urls returned at its detect_text score
C9_Witness ==
  \E w1 \in Workers : \E w2 \in Workers :
    /\ Answered(w1) /\ req[w1].kind = "sms"
    /\ Len(req[w1].content) < 100 /\ ExtractUrlsOf[req[w1].content] # <<>>
    /\ response[w1].body.threat_score = [n |-> 115, d |-> 2]
    /\ response[w1].body.is_phishing
    /\ Answered(w2) /\ req[w2].kind = "sms"
    /\ Len(req[w2].content) >= 100 /\ ExtractUrlsOf[req[w2].content] # <<>>
    /\ response[w2].body.threat_score =
         DetectTextOf[req[w2].content][req[w2].language].threat_score

\* C10: detect_text runs the URL Analyzer once on each extracted url and its
\* threat_score is min(text score + 0.5 * mean of the urls' scores, 100), or
\* min(text score, 100) when no url is extracted.
C10_TextScore ==
  \A w \in Workers :
    (req[w].kind \in {"text", "sms"} /\ req[w].result # None) =>
      LET t == IF req[w].kind = "text" THEN req[w].result
               ELSE DetectTextOf[req[w].content][req[w].language]
          urls == ExtractUrlsOf[req[w].content]
          base == TextAnalyzeOf[req[w].content][req[w].language].score
          sum == SumSeq([i \in DOMAIN urls |-> UrlAnalyzeOf[urls[i]].score])
          den == 2 * Len(urls)
          num == den * base + sum
      IN /\ req[w].analyzed = urls
         /\ IF urls = <<>>
            THEN t.threat_score = IntScore(IF base < 100 THEN base ELSE 100)
            ELSE IF num >= 100 * den
            THEN t.threat_score = IntScore(100)
            ELSE t.threat_score.n * den = num * t.threat_score.d

\* a text with two urls of different analyzer scores returned below 100
C10_Witness ==
  \E w \in Workers :
    /\ Answered(w) /\ req[w].kind = "text"
    /\ Len(req[w].analyzed) = 2
    /\ UrlAnalyzeOf[req[w].analyzed[1]].score # UrlAnalyzeOf[req[w].analyzed[2]].score
    /\ response[w].body.threat_score.n < 100 * response[w].body.threat_score.d
    /\ response[w].body.threat_score.d = 2

\* C11: the threat_score of every verdict is an integer, the text and sms
\* verdicts whose score includes half of the average embedded-url score included.
C11_ScoreIsInteger ==
  \A w \in Workers : \A v \in Produced(w) : v.threat_score.d = 1

(***************************************************************************)
(* Properties of the analyzers and of the detector called directly         *)
(***************************************************************************)

\* the analyzer of the call of worker w has returned
Returned(w) ==
  /\ req[w].kind \in {"detect_url", "detect_text", "detect_sms"}
  /\ pc[w] \in {"verdict", "done"}

\* the results dict the analyzer of the call of worker w returned
Results(w) == IF pc[w] = "done" THEN req[w].content ELSE req[w].result

\* the call of worker w analyzes a url that urlparse rejects
Unparseable(w) == req[w].kind = "detect_url" /\ ~UrlParseOf[req[w].raw].ok

\* C12: URLAnalyzer.analyze returns a result for every string; for a url that
\* cannot be parsed the result has indicators ['Invalid URL format'] and score
\* 30, and none of the later checks is applied.
C12_UnparseableUrl ==
  \A w \in Workers :
    /\ req[w].kind = "detect_url" =>
         /\ req[w].result # None
         /\ Returned(w) => {"indicators", "score"} \subseteq DOMAIN Results(w)
    /\ Unparseable(w) =>
         /\ Returned(w)
         /\ req[w].calls = <<>>
         /\ Results(w).indicators = <<"Invalid URL format">>
         /\ Results(w).score = 30
         /\ UrlResultsOf[req[w].raw].indicators = <<"Invalid URL format">>
         /\ UrlResultsOf[req[w].raw].score = 30

\* detect_url of an unparseable url returned a verdict of score 30 with the
\* one indicator, while a parseable url had all its checks applied
C12_Witness ==
  \E w1 \in Workers : \E w2 \in Workers :
    /\ Unparseable(w1) /\ pc[w1] = "done"
    /\ req[w1].result.threat_score = IntScore(30)
    /\ req[w1].result.indicators = <<"Invalid URL format">>
    /\ req[w2].kind = "detect_url" /\ pc[w2] = "done" /\ ~Unparseable(w2)
    /\ Len(req[w2].calls) = Len(UrlChecksOf[req[w2].raw])

\* C13: every result URLAnalyzer.analyze returns, the early exit on an
\* unparseable url included, has details with the domain, the scheme and the path.
C13_DetailsAlwaysFilled ==
  \A w \in Workers :
    (req[w].kind = "detect_url" /\ Returned(w)) =>
      {"domain", "protocol", "path"} \subseteq DOMAIN Results(w).details

\* the known patterns the lowercased url contains, by their place in the list
KnownPatternsIn ==
  [url \in DetectorUrls |->
     {k \in DOMAIN known_patterns : Contains(Lower(url), known_patterns[k])}]

\* C14: check_threat returns the first match in the order blacklist store
\* (exact domain), static malicious-domain list (exact domain), known pattern
\* (substring of the lowercased input), and None when nothing matches.
C14_FirstMatchWins ==
  \A w \in Workers :
    req[w].kind = "check_threat" =>
      LET info == req[w].threat_info
          domain == req[w].content
          rows == {r \in blacklist : r.domain = domain}
          listed == \E k \in DOMAIN malicious_domains : malicious_domains[k] = domain
          patterns == KnownPatternsIn[req[w].raw]
      IN IF rows # {}
         THEN /\ info # None /\ info.found
              /\ info.source = "database" /\ info.severity = "Critical"
              /\ \E r \in rows : info.category = r.category
         ELSE IF listed
         THEN /\ info # None /\ info.found
              /\ info.source = "threat_feed" /\ info.severity = "Critical"
              /\ info.category = "phishing"
         ELSE IF patterns # {}
         THEN /\ info # None /\ info.found
              /\ info.source = "pattern_matching" /\ info.severity = "High"
              /\ \E k \in patterns :
                   /\ \A j \in patterns : k <= j
                   /\ info.description =
                        "Contains known phishing pattern: " \o known_patterns[k]
         ELSE info = None

\* a domain in the store and in the static list answered from the store, and
\* a url with a listed domain and a known pattern answered with the Critical
\* record of the list
C14_Witness ==
  \E w1 \in Workers : \E w2 \in Workers :
    /\ req[w1].kind = "check_threat" /\ pc[w1] = "done"
    /\ \E r \in blacklist : r.domain = req[w1].content
    /\ \E k \in DOMAIN malicious_domains : malicious_domains[k] = req[w1].content
    /\ req[w1].threat_info.source = "database"
    /\ req[w2].kind = "check_threat" /\ pc[w2] = "done"
    /\ ~ \E r \in blacklist : r.domain = req[w2].content
    /\ \E k \in DOMAIN malicious_domains : malicious_domains[k] = req[w2].content
    /\ KnownPatternsIn[req[w2].raw] # {}
    /\ req[w2].threat_info.source = "threat_feed"
    /\ req[w2].threat_info.severity = "Critical"

\* the request bodies whose text, as the handler reads it, is empty or longer
\* than 10,000 characters
RejectedTexts ==
  {raw \in TextBodies : Strip(raw) = "" \/ Len(Strip(raw)) > 10000}

\* the workers whose present request is such a text
Rejecting ==
  {w \in Workers : req[w].kind \in {"text", "sms"} /\ req[w].raw \in RejectedTexts}

AloneSoFar(w) ==
  ApplyChecks(SubSeq(ChecksOf(req[w]), 1, Len(req[w].calls)),
              [score |-> 0, indicators |-> <<>>])

\* C16: whatever the interleaving of the calls served by the shared detector,
\* each call's verdict is the verdict of its input run alone, and its running
\* score and indicator list are those of its own checks only.
C16_VerdictAsAlone ==
  \A w \in Workers :
    /\ (req[w].kind \in {"detect_url", "detect_text", "detect_sms"}
        /\ pc[w] \in {"checks", "details"}) =>
         /\ req[w].result.score = AloneSoFar(w).score
         /\ req[w].result.indicators = AloneSoFar(w).indicators
    /\ (req[w].kind = "detect_url" /\ pc[w] = "done") =>
         /\ req[w].content = UrlResultsOf[req[w].raw]
         /\ req[w].result = UrlVerdictOf[req[w].raw]
    /\ (req[w].kind = "detect_text" /\ pc[w] = "done") =>
         /\ req[w].content = TextResultsOf[req[w].raw][req[w].language]
         /\ req[w].result = TextVerdictOf[req[w].raw][req[w].language]
    /\ (req[w].kind = "detect_sms" /\ pc[w] = "done") =>
         /\ req[w].content = TextResultsOf[req[w].raw][req[w].language]
         /\ req[w].result = SmsVerdictOf[req[w].raw][req[w].language]

\* a call that began and returned its verdict while another call, of another
\* input, was in the middle of its checks with a score of its own
C16_Witness ==
  /\ req["w1"].kind = "detect_url" /\ pc["w1"] = "checks"
  /\ req["w1"].result.score > 0
  /\ Len(req["w1"].calls) < Len(ChecksOf(req["w1"]))
  /\ req["w2"].kind = "detect_sms" /\ pc["w2"] = "done"
  /\ req["w2"].result = SmsVerdictOf[req["w2"].raw][req["w2"].language]
  /\ req["w2"].result.is_phishing
  /\ req["w2"].content.score # req["w1"].result.score

\* C17: the domain URLAnalyzer.analyze records for a url is the domain that
\* ThreatIntelligence._extract_domain and validators.extract_domain produce
\* for the same url.
C17_SameDomain ==
  \A w \in Workers : \A v \in Workers :
    (/\ req[w].kind = "detect_url" /\ Returned(w) /\ ~Unparseable(w)
     /\ req[v].kind \in {"check_threat", "extract_domain"} /\ pc[v] = "done"
     /\ req[v].raw = req[w].raw) =>
      /\ Results(w).domain = req[v].content
      /\ Results(w).details.domain = req[v].content

\* C18: the content of a text or sms verdict is the input when it has at most
\* 100 characters, and its first 100 characters followed by '...' otherwise;
\* the content of a url verdict is the whole url, whatever its length.
C18_Content ==
  \A w \in Workers :
    pc[w] = "done" =>
      /\ req[w].kind \in {"detect_text", "detect_sms"} =>
           LET text == req[w].raw
               content == req[w].result.content
           IN IF Len(text) <= 100
              THEN content = text
              ELSE /\ Len(content) = 103
                   /\ SubSeq(content, 1, 100) = SubSeq(text, 1, 100)
                   /\ SubSeq(content, 101, 103) = "..."
      /\ req[w].kind = "detect_url" => req[w].result.content = req[w].raw

\* a url of more than 100 characters kept whole in its verdict, next to the
\* verdict of a text of 101 characters cut to 100 and the ellipsis
C18_Witness ==
  /\ req["w1"].kind = "detect_url" /\ pc["w1"] = "done"
  /\ Len(req["w1"].raw) > 100
  /\ req["w1"].result.content = req["w1"].raw
  /\ req["w2"].kind = "detect_text" /\ pc["w2"] = "done"
  /\ Len(req["w2"].raw) = 101
  /\ Len(req["w2"].result.content) = 103

\* C19: TextAnalyzer.analyze returns the same score, indicators and details
\* for every value of the language parameter: the keywords of all the
\* dictionaries count, and the language shows only in the 'language' field.
C19_LanguageIndependent ==
  \A w \in Workers :
    (req[w].kind \in {"detect_text", "detect_sms"} /\ Returned(w)) =>
      /\ Results(w).language = req[w].language
      /\ \A language \in DetectorLanguages :
           LET other == TextResultsOf[req[w].raw][language]
           IN /\ other.score = Results(w).score
              /\ other.indicators = Results(w).indicators
              /\ other.details = Results(w).details
              /\ other.text_length = Results(w).text_length
              /\ other.language = language

\* a text whose only keywords are of the hindi and tamil dictionaries,
\* analyzed as english by one call and as a language without a dictionary by
\* another, both counting the two keywords
C19_Witness ==
  /\ req["w1"].kind = "detect_text" /\ Returned("w1")
  /\ req["w2"].kind = "detect_text" /\ Returned("w2")
  /\ req["w1"].raw = req["w2"].raw
  /\ req["w1"].language = "english" /\ Results("w1").language = "english"
  /\ req["w2"].language = "french" /\ Results("w2").language = "french"
  /\ "keywords" \in DOMAIN Results("w1").details
  /\ \A k \in DOMAIN Results("w1").details.keywords :
       /\ Results("w1").details.keywords[k] \notin Range(keywords_english)
       /\ Results("w1").details.keywords[k] \in Range(keywords_hindi \o keywords_tamil)
  /\ Results("w1").score = 10
  /\ Results("w2").score = 10
  /\ Results("w1").indicators = <<"Found 2 phishing keywords">>
  /\ Results("w2").indicators = Results("w1").indicators

\* C20: for an input that does not take the early exit of the malformed url,
\* the final score of URLAnalyzer.analyze and of TextAnalyzer.analyze is the
\* same whatever the order in which the checks are applied and the order in
\* which the keyword, TLD, shortener and credential-pattern tables are iterated.
C20_ScoreOrderIndependent ==
  \A w \in Workers :
    (req[w].kind \in {"analyze_url", "analyze_text"} /\ pc[w] = "done") =>
      IF req[w].kind = "analyze_text"
      THEN req[w].result.score = TextResultsOf[req[w].raw][req[w].language].score
      ELSE UrlParseOf[req[w].raw].ok =>
             req[w].result.score = UrlResultsOf[req[w].raw].score

\* an analysis with the tables reversed and the checks in another order than
\* the code's: other indicators, in another order, and the score of the code
C20_Witness ==
  /\ req["w1"].kind = "analyze_url" /\ pc["w1"] = "done"
  /\ UrlParseOf[req["w1"].raw].ok
  /\ req["w1"].order = "reversed"
  /\ Range(req["w1"].result.indicators) # Range(UrlResultsOf[req["w1"].raw].indicators)
  /\ Head(req["w1"].result.indicators) = "No HTTPS encryption"
  /\ Head(UrlResultsOf[req["w1"].raw].indicators) # "No HTTPS encryption"
  /\ req["w1"].result.score = UrlResultsOf[req["w1"].raw].score
  /\ req["w1"].result.score >= 40


(***************************************************************************)
(* Properties of single checks of the analyzers                            *)
(***************************************************************************)

\* the places of the indicators of the suspicious-TLD check in the results
\* of the call of worker w
TldIndicators(w) ==
  {i \in DOMAIN Results(w).indicators :
     StartsWith(Results(w).indicators[i], "Suspicious TLD: ")}

\* the host of the url of worker w holds one of the suspicious TLDs
HostHasTld(w) ==
  \E k \in DOMAIN suspicious_tlds :
    Contains(Lower(Results(w).domain), suspicious_tlds[k])

\* C21: the suspicious-TLD check fires, once, exactly when the host ends with
\* or contains a suspicious TLD; a TLD in the path or the query alone adds
\* nothing.
C21_TldOnHost ==
  \A w \in Workers :
    (req[w].kind = "detect_url" /\ Returned(w) /\ ~Unparseable(w)) =>
      /\ Cardinality(TldIndicators(w)) <= 1
      /\ TldIndicators(w) # {} <=> HostHasTld(w)

\* the homoglyphs table of _check_homoglyphs: the lookalikes of each letter
homoglyphs ==
  [c \in {"o", "a", "e", "i", "l"} |->
     IF c = "o" THEN {"0", "ο", "~cyr-o~"}
     ELSE IF c = "a" THEN {"~cyr-a~", "α"}
     ELSE IF c = "e" THEN {"~cyr-e~", "ε"}
     ELSE IF c = "i" THEN {"~cyr-i~", "ι", "1"}
     ELSE {"1", "ӏ"}]

\* s begins with the brand spelled with lookalikes in the place of some of
\* its letters: of at least one of them when altered is FALSE
RECURSIVE SpelledWithLookalikes(_, _, _)
SpelledWithLookalikes(brand, s, altered) ==
  IF brand = "" THEN altered
  ELSE \/ /\ s # ""
          /\ CharAt(s, 1) = CharAt(brand, 1)
          /\ SpelledWithLookalikes(From(brand, 2), From(s, 2), altered)
       \/ /\ CharAt(brand, 1) \in DOMAIN homoglyphs
          /\ \E v \in homoglyphs[CharAt(brand, 1)] :
               /\ StartsWith(s, v)
               /\ SpelledWithLookalikes(From(brand, 2), From(s, Len(v) + 1), TRUE)

\* whether the host of each url holds a brand name altered by a lookalike
AlteredBrandIn ==
  [url \in {u \in DetectorUrls : UrlParseOf[u].ok} |->
     LET host == Lower(UrlDomain(UrlParseOf[url]))
     IN \E b \in DOMAIN homoglyph_brands : \E i \in 1..Len(host) :
          SpelledWithLookalikes(homoglyph_brands[b], From(host, i), FALSE)]

\* C22: the homoglyph check fires exactly for the hosts that hold a brand
\* name with a letter replaced by a lookalike character.
C22_HomoglyphOnAlteredBrand ==
  \A w \in Workers :
    (req[w].kind = "detect_url" /\ Returned(w) /\ ~Unparseable(w)) =>
      ("Possible homoglyph attack detected" \in Range(Results(w).indicators)
         <=> AlteredBrandIn[req[w].raw])

\* which of the three credential patterns match the lowercased text
CredentialMatchesOf == [text \in OrderTexts |-> CredentialMatches(Lower(text))]

\* the 'Requests sensitive credentials' indicators in the results of worker w
CredentialIndicators(w) ==
  {i \in DOMAIN req[w].result.indicators :
     req[w].result.indicators[i] = "Requests sensitive credentials"}

\* the analysis of a text by worker w applies its credential check in this step
CredentialStep(w) ==
  /\ req[w].kind = "analyze_text" /\ pc[w] = "permuted_checks"
  /\ 8 \notin req[w].applied
  /\ req'[w].kind = "analyze_text" /\ 8 \in req'[w].applied

\* C23: the credential check adds 30 and one 'Requests sensitive credentials'
\* indicator when at least one of the three patterns matches the lowercased
\* text, and nothing when none does; several matching patterns add 30 once.
C23_CredentialOnce ==
  /\ [](\A w \in Workers :
          req[w].kind = "analyze_text" =>
            Cardinality(CredentialIndicators(w)) =
              IF /\ 8 \in req[w].applied
                 /\ \E k \in 1..3 : CredentialMatchesOf[req[w].raw][k]
              THEN 1 ELSE 0)
  /\ [][\A w \in Workers :
          CredentialStep(w) =>
            IF \E k \in 1..3 : CredentialMatchesOf[req[w].raw][k]
            THEN /\ req'[w].result.score = req[w].result.score + 30
                 /\ req'[w].result.indicators =
                      Append(req[w].result.indicators, "Requests sensitive credentials")
            ELSE /\ req'[w].result.score = req[w].result.score
                 /\ req'[w].result.indicators = req[w].result.indicators]_vars

\* a text that two of the patterns match, its credential check applied first:
\* one indicator and a score of 30
C23_Witness ==
  /\ req["w1"].kind = "analyze_text"
  /\ req["w1"].applied = {8}
  /\ Cardinality({k \in 1..3 : CredentialMatchesOf[req["w1"].raw][k]}) = 2
  /\ req["w1"].result.indicators = <<"Requests sensitive credentials">>
  /\ req["w1"].result.score = 30


(***************************************************************************)
(* Properties of the threat-intelligence boost and of the sms adjustment   *)
(***************************************************************************)

\* C24: when check_threat returns None the verdict of scan_url is the verdict
\* of detect_url, with no threat_intelligence field; the field is there
\* exactly when a match was found, and holds the match.
C24_NoMatchNoChange ==
  \A w \in Workers :
    (req[w].kind = "url" /\ req[w].result # None) =>
      /\ Pos(req[w].calls, "check_threat") # 0
      /\ req[w].threat_info = None =>
           /\ "threat_intelligence" \notin DOMAIN req[w].result
           /\ req[w].result = DetectUrlOf[req[w].content]
      /\ req[w].threat_info # None =>
           /\ req[w].threat_info.found
           /\ "threat_intelligence" \in DOMAIN req[w].result
           /\ req[w].result.threat_intelligence = req[w].threat_info
      /\ Answered(w) => response[w].body = req[w].result

\* a url with a score of its own and no match, returned as detect_url rated it
C24_Witness ==
  \E w \in Workers :
    /\ req[w].kind = "url" /\ Answered(w)
    /\ req[w].threat_info = None
    /\ response[w].body = DetectUrlOf[req[w].content]
    /\ response[w].body.threat_score.n > 0
    /\ response[w].body.indicators # <<>>


\* C25: a domain that _extract_domain or extract_domain returned is returned
\* unchanged when it is passed to the same function again.
C25_ExtractDomainIdempotent ==
  \A w \in Workers :
    req[w].kind \in {"_extract_domain again", "extract_domain again"} =>
      req[w].content = req[w].raw

\* the validated urls whose domain is in the blacklist store or in the
\* static list of malicious domains
ListedUrls ==
  {url \in ValidUrls :
     \/ \E r \in BlacklistRows : r.domain = ExtractDomain(url)
     \/ ExtractDomain(url) \in Range(malicious_domains)}

\* C26: a url whose domain is in the blacklist store or in the static list
\* gets from scan_url a verdict with is_phishing true and a risk level of
\* Medium or higher, whatever the URL Analyzer made of it.
C26_ListedDomainIsPhishing ==
  \A w \in Workers :
    (req[w].kind = "url" /\ req[w].result # None /\ req[w].content \in ListedUrls) =>
      /\ req[w].result.is_phishing
      /\ req[w].result.risk_level \in {"Medium", "High", "Critical"}
      /\ Answered(w) =>
           /\ response[w].body.is_phishing
           /\ response[w].body.risk_level \in {"Medium", "High", "Critical"}

\* a listed domain the URL Analyzer scored 0 returned as phishing, next to a
\* url matched by a known pattern only and returned as not phishing
C26_Witness ==
  /\ req["w1"].kind = "url" /\ Answered("w1")
  /\ req["w1"].content \in ListedUrls
  /\ UrlAnalyzeOf[req["w1"].content].score = 0
  /\ response["w1"].body.is_phishing
  /\ response["w1"].body.risk_level = "Medium"
  /\ req["w2"].kind = "url" /\ Answered("w2")
  /\ req["w2"].content \notin ListedUrls
  /\ req["w2"].threat_info # None
  /\ req["w2"].threat_info.source = "pattern_matching"
  /\ response["w2"].body.threat_score = IntScore(35)
  /\ ~response["w2"].body.is_phishing

\* the tier of a risk level
RiskTier(risk_level) ==
  IF risk_level = "Critical" THEN 4
  ELSE IF risk_level = "High" THEN 3
  ELSE IF risk_level = "Medium" THEN 2
  ELSE IF risk_level = "Low" THEN 1
  ELSE 0

\* the verdict the verdict of worker w was adjusted from: that of detect_url
\* before the boost of scan_url, that of detect_text before the adjustment
\* of detect_sms
BeforeAdjustment(w) ==
  IF req[w].kind = "url" THEN DetectUrlOf[req[w].content]
  ELSE DetectTextOf[req[w].content][req[w].language]

\* C27: the boost of scan_url and the adjustment of detect_sms never lower
\* the threat_score, never move the risk level to a lower tier and never
\* turn is_phishing from true to false.
C27_AdjustmentsMonotone ==
  \A w \in Workers :
    (req[w].kind \in {"url", "sms"} /\ req[w].result # None) =>
      /\ RLeq(BeforeAdjustment(w).threat_score, req[w].result.threat_score)
      /\ RiskTier(BeforeAdjustment(w).risk_level) >= 1
      /\ RiskTier(req[w].result.risk_level) >= RiskTier(BeforeAdjustment(w).risk_level)
      /\ BeforeAdjustment(w).is_phishing => req[w].result.is_phishing

\* a boost that raised a url by two tiers, and an sms adjustment that turned
\* a text rated not phishing into a phishing one
C27_Witness ==
  /\ req["w1"].kind = "url" /\ Answered("w1") /\ Boosted("w1")
  /\ DetectUrlOf[req["w1"].content].risk_level = "Low"
  /\ response["w1"].body.risk_level = "High"
  /\ req["w2"].kind = "sms" /\ Answered("w2")
  /\ ~DetectTextOf[req["w2"].content][req["w2"].language].is_phishing
  /\ response["w2"].body.is_phishing
  /\ response["w2"].body.threat_score =
       RAdd(DetectTextOf[req["w2"].content][req["w2"].language].threat_score, IntScore(15))

\* ---------------------------------------------------------------------------
\* Properties of the scan log and the statistics row
\* ---------------------------------------------------------------------------

\* the request of w has appended its row: save_scan was called and returned
AppendedRow(w) ==
  /\ \E i \in DOMAIN req[w].calls : req[w].calls[i] = "save_scan"
  /\ req[w].raised # "save_scan"

\* no request is between its save_scan and its update_statistics
NoScanInFlight == \A w \in Workers : pc[w] # "update_statistics"

\* C28: whenever no request is between its save_scan and its
\* update_statistics, the scan log has as many rows as were added to
\* statistics.total_scans and as many phishing rows as were added to
\* statistics.phishing_detected, and every finished request that appended a
\* row was answered with a verdict, save_scan or update_statistics failing
\* included.
C28_LogMatchesStatistics ==
  NoScanInFlight =>
    /\ Len(scans) = statistics.total_scans
    /\ Len(SelectSeq(scans, LAMBDA row : row.is_phishing)) = statistics.phishing_detected
    /\ \A w \in Workers :
         (pc[w] = "done" /\ AppendedRow(w)) => response[w].status = 200

(***************************************************************************)
(* Accounts and sessions (utils/auth.py), the functions called directly.   *)
(* A call is one transaction: it reads, writes and commits, or rolls back, *)
(* in one step.  req[w] records the call, its arguments and, as result,    *)
(* the value it returned.  The columns of users and sessions are the ones  *)
(* the statements of auth.py name; is_verified starts at 0 and last_login  *)
(* at NULL; a last_login that is set is the record of its day.             *)
(***************************************************************************)

Emails == {"ann@example.com", "bob@example.com"}
Passwords == {"hunter2", "letmein"}
\* the codes a caller gives to verify_user, and the ones random.randint draws
VerificationCodes == {"123456", "654321"}
GeneratedCodes == {"123456"}

\* the most tokens the session table is given, and the last day of the clock
MaxSessions == 2
MaxNow == 8

\* timedelta(days=7)
SessionDays == 7

\* hashlib.sha256(password.encode()).hexdigest()
hash_password(password) ==
  IF password = "hunter2"
  THEN "f52fbd32b2b3b86ff88ef6c490628285f482af15ddcb29541f94bcf526a3f6c7"
  ELSE IF password = "letmein"
  THEN "1c8bfe8f801d79745c4631d09fff36c82aa37fc4cce4fc946683d7b336b63032"
  ELSE "e3b0c44298fc1c149afbf4c8996fb92427ae41e4649b934ca495991b7852b855"

verify_password(password, password_hash) == hash_password(password) = password_hash

\* secrets.token_urlsafe(32): 256 random bits, a value no earlier call returned
generate_session_token == "token-" \o IntToStr(generated + 1)

\* every token the generator can return, and one it never returns
SessionTokens == {"token-" \o IntToStr(i) : i \in 1..MaxSessions}
AnyTokens == SessionTokens \cup {"forged"}

\* the tokens a caller can present: the ones generated so far and the one
\* never generated (a token of 256 random bits is not guessed beforehand)
PresentedTokens == {"token-" \o IntToStr(i) : i \in 1..generated} \cup {"forged"}

\* cursor.fetchone() of a SELECT on a table: the first row that satisfies
\* the WHERE clause, None when there is none
FetchOne(rows) == IF rows = <<>> THEN None ELSE Head(rows)

\* SELECT ... FROM users WHERE email = ?
UsersByEmail(email) == SelectSeq(users, LAMBDA u : u.email = email)

\* SELECT ... FROM users WHERE email = ? AND is_verified = 0
UnverifiedByEmail(email) ==
  SelectSeq(users, LAMBDA u : u.email = email /\ u.is_verified = 0)

\* SELECT ... FROM sessions s JOIN users u ON s.user_id = u.id
\* WHERE s.session_token = ?
SessionsByToken(session_token) ==
  SelectSeq(sessions, LAMBDA s : s.session_token = session_token
                                 /\ s.user_id \in DOMAIN users)

\* the call of w returns value
AuthReturn(w, kind, args, value) ==
  /\ req' = [req EXCEPT ![w] =
               [NoRequest EXCEPT !.kind = kind, !.result = value] @@ args]
  /\ pc' = [pc EXCEPT ![w] = "done"]

CanCall(w) == pc[w] \in {"idle", "done"}

\* what an except clause of auth.py returns after its rollback
AuthError == [success |-> FALSE, error |-> "database is locked"]

\* create_user(full_name, email, password), random.randint drawing
\* verification_code and send_otp_email answering email_sent
CreateUser(w, full_name, email, password, verification_code, email_sent) ==
  /\ CanCall(w)
  /\ LET args == [full_name |-> full_name, email |-> email, password |-> password]
         user_id == Len(users) + 1
     IN IF FetchOne(UsersByEmail(email)) # None
        THEN /\ AuthReturn(w, "create_user", args,
                           [success |-> FALSE, error |-> "Email already registered"])
             /\ UNCHANGED <<users, user_settings>>
        ELSE /\ users' = Append(users,
                   [id |-> user_id, full_name |-> full_name, email |-> email,
                    password_hash |-> hash_password(password),
                    verification_code |-> verification_code,
                    is_verified |-> 0, last_login |-> None])
             /\ user_settings' = Append(user_settings,
                   [user_id |-> user_id, sms_protection |-> 0,
                    email_protection |-> 0, notifications |-> 1])
             /\ AuthReturn(w, "create_user", args,
                   IF email_sent
                   THEN [success |-> TRUE, user_id |-> user_id, email_sent |-> TRUE]
                   ELSE [success |-> TRUE, user_id |-> user_id, email_sent |-> FALSE,
                         verification_code |-> verification_code])
  /\ UNCHANGED <<response, scans, statistics, blacklist, started, sessions, now, generated>>

\* verify_user(email, verification_code)
VerifyUser(w, email, verification_code) ==
  /\ CanCall(w)
  /\ LET args == [email |-> email, verification_code |-> verification_code]
         user == FetchOne(UnverifiedByEmail(email))
     IN IF user = None
        THEN /\ AuthReturn(w, "verify_user", args,
                   [success |-> FALSE, error |-> "User not found or already verified"])
             /\ UNCHANGED users
        ELSE IF user.verification_code # verification_code
        THEN /\ AuthReturn(w, "verify_user", args,
                   [success |-> FALSE, error |-> "Invalid verification code"])
             /\ UNCHANGED users
        ELSE /\ users' = [users EXCEPT ![user.id] =
                            [@ EXCEPT !.is_verified = 1, !.verification_code = None]]
             /\ AuthReturn(w, "verify_user", args, [success |-> TRUE])
  /\ UNCHANGED <<response, scans, statistics, blacklist, started, user_settings,
                 sessions, now, generated>>

\* login_user without its check of is_verified
LoginRefusalUnverified(user, password) ==
  IF user = None THEN "Invalid email or password"
  ELSE IF ~verify_password(password, user.password_hash) THEN "Invalid email or password"
  ELSE ""

\* the three checks of login_user before it creates a session: the error it
\* returns, "" when the login goes on
LoginRefusal(user, password) ==
  IF user = None THEN "Invalid email or password"
  ELSE IF ~verify_password(password, user.password_hash) THEN "Invalid email or password"
  ELSE IF user.is_verified = 0 THEN "Please verify your email first"
  ELSE ""

\* login_user(email, password)
LoginUser(w, email, password) ==
  /\ CanCall(w)
  /\ LET args == [email |-> email, password |-> password]
         user == FetchOne(UsersByEmail(email))
         refusal == LoginRefusal(user, password)
     IN IF refusal # ""
        THEN /\ AuthReturn(w, "login_user", args, [success |-> FALSE, error |-> refusal])
             /\ UNCHANGED <<users, sessions, generated>>
        ELSE /\ generated < MaxSessions
             /\ generated' = generated + 1
             /\ sessions' = Append(sessions,
                   [user_id |-> user.id, session_token |-> generate_session_token,
                    expires_at |-> now + SessionDays])
             /\ users' = [users EXCEPT ![user.id].last_login = [day |-> now]]
             /\ AuthReturn(w, "login_user", args,
                   [success |-> TRUE, session_token |-> generate_session_token,
                    user |-> [id |-> user.id, full_name |-> user.full_name,
                              email |-> email]])
  /\ UNCHANGED <<response, scans, statistics, blacklist, started, user_settings, now>>

\* login_user(email, password), the INSERT into sessions raising: the except
\* clause rolls back and returns the error
LoginUserRaises(w, email, password) ==
  /\ CanCall(w)
  /\ LoginRefusal(FetchOne(UsersByEmail(email)), password) = ""
  /\ generated < MaxSessions
  /\ generated' = generated + 1
  /\ AuthReturn(w, "login_user", [email |-> email, password |-> password], AuthError)
  /\ UNCHANGED <<response, scans, statistics, blacklist, started, users, user_settings,
                 sessions, now>>

\* verify_session(session_token): the user of the session, None for no
\* session and for an expired one
verify_session(session_token) ==
  LET session == FetchOne(SessionsByToken(session_token))
  IN IF session = None THEN None
     ELSE IF session.expires_at < now THEN None
     ELSE [id |-> session.user_id, full_name |-> users[session.user_id].full_name,
           email |-> users[session.user_id].email]

VerifySession(w, session_token) ==
  /\ CanCall(w)
  /\ session_token \in PresentedTokens
  /\ AuthReturn(w, "verify_session", [session_token |-> session_token],
                verify_session(session_token))
  /\ UNCHANGED <<response, scans, statistics, blacklist, started, authvars>>

\* a DELETE that leaves the sessions not yet expired
DeleteSessionsExpired(session_token) ==
  SelectSeq(sessions, LAMBDA s : s.session_token # session_token \/ s.expires_at >= now)

\* DELETE FROM sessions WHERE session_token = ?
DeleteSessions(session_token) ==
  SelectSeq(sessions, LAMBDA s : s.session_token # session_token)

\* logout_user(session_token)
LogoutUser(w, session_token) ==
  /\ CanCall(w)
  /\ session_token \in PresentedTokens
  /\ sessions' = DeleteSessions(session_token)
  /\ AuthReturn(w, "logout_user", [session_token |-> session_token], [success |-> TRUE])
  /\ UNCHANGED <<response, scans, statistics, blacklist, started, users, user_settings,
                 now, generated>>

\* logout_user(session_token), the DELETE raising: nothing is deleted
LogoutUserRaises(w, session_token) ==
  /\ CanCall(w)
  /\ session_token \in PresentedTokens
  /\ AuthReturn(w, "logout_user", [session_token |-> session_token], AuthError)
  /\ UNCHANGED <<response, scans, statistics, blacklist, started, authvars>>

\* time passing between two calls: a day more than a session lasts
Tick ==
  /\ now + SessionDays + 1 <= MaxNow
  /\ now' = now + SessionDays + 1
  /\ UNCHANGED <<pc, req, response, scans, statistics, blacklist, started, users,
                 user_settings, sessions, generated>>

AuthNext ==
  \/ \E w \in {"w1"} :
       \/ \E email \in Emails : \E password \in Passwords :
            \E verification_code \in GeneratedCodes : \E email_sent \in BOOLEAN :
              CreateUser(w, "Ann", email, password, verification_code, email_sent)
       \/ \E email \in Emails : \E verification_code \in VerificationCodes :
            VerifyUser(w, email, verification_code)
       \/ \E email \in Emails : \E password \in Passwords : LoginUser(w, email, password)
       \/ \E email \in Emails : \E password \in Passwords :
            LoginUserRaises(w, email, password)
       \/ \E session_token \in AnyTokens : VerifySession(w, session_token)
       \/ \E session_token \in AnyTokens : LogoutUser(w, session_token)
       \/ \E session_token \in AnyTokens : LogoutUserRaises(w, session_token)
  \/ Tick

AuthSpec == Init /\ [][AuthNext]_vars

(***************************************************************************)
(* Properties of accounts and sessions                                     *)
(***************************************************************************)

\* the call recorded in req[w] is a login_user that returned success
LoginSucceeded(r) == r.kind = "login_user" /\ r.result.success

\* the call recorded in req[w] is a login_user that returned an error
LoginFailed(r) == r.kind = "login_user" /\ ~r.result.success

\* the user row the login recorded in r was given the right password of, and
\* that is verified
EntitledUser(r, u) ==
  /\ u.email = r.email
  /\ u.password_hash = hash_password(r.password)
  /\ u.is_verified = 1

\* C29: a row is added to sessions only by a login_user whose email is that
\* of a user row with the hash of the password given and is_verified = 1,
\* and the row belongs to that user; every session row belongs to a user
\* with is_verified = 1; a login_user that returns an error leaves sessions
\* and users unchanged.
C29_SessionsOnlyForVerified ==
  /\ [](\A i \in DOMAIN sessions :
          /\ sessions[i].user_id \in DOMAIN users
          /\ users[sessions[i].user_id].is_verified = 1)
  /\ [][/\ Len(sessions') > Len(sessions) =>
             /\ LoginSucceeded(req'["w1"])
             /\ sessions' = Append(sessions, sessions'[Len(sessions')])
             /\ sessions'[Len(sessions')].user_id \in DOMAIN users
             /\ EntitledUser(req'["w1"], users[sessions'[Len(sessions')].user_id])
        /\ LoginFailed(req'["w1"]) => UNCHANGED <<users, sessions>>]_vars

\* a login refused for an account not yet verified, while the other
\* account, verified, holds a session
C29_Witness ==
  /\ req["w1"].kind = "login_user"
  /\ req["w1"].result = [success |-> FALSE, error |-> "Please verify your email first"]
  /\ Len(sessions) = 1
  /\ Len(users) = 2
  /\ users[sessions[1].user_id].is_verified = 1


\* the call recorded in req[w] is a logout_user of session_token that
\* returned success
LoggedOut(w, session_token) ==
  /\ req[w].kind = "logout_user"
  /\ req[w].session_token = session_token
  /\ req[w].result.success

\* C30: once logout_user(token) has returned success, verify_session(token)
\* is None in every later state, whatever calls follow; and verify_session
\* accepts no token at the start and comes to accept a token only in the
\* step of the successful login_user that returned it, so a token no
\* successful login issued is never accepted.
C30_LoggedOutStaysOut ==
  /\ \A session_token \in AnyTokens :
       [](LoggedOut("w1", session_token) => [](verify_session(session_token) = None))
  /\ \A session_token \in AnyTokens : verify_session(session_token) = None
  /\ [][\A session_token \in AnyTokens :
          (verify_session(session_token) = None /\ verify_session(session_token)' # None) =>
            /\ LoginSucceeded(req'["w1"])
            /\ req'["w1"].result.session_token = session_token]_vars

\* both accounts have logged in, so both tokens were issued; the first was
\* logged out, the second is still accepted, and verify_session is asked
\* for the first before it could have expired
C30_Witness ==
  /\ generated = 2
  /\ Len(users) = 2
  /\ \A u \in DOMAIN users : users[u].last_login # None
  /\ Len(sessions) = 1
  /\ sessions[1].session_token = "token-2"
  /\ now < SessionDays
  /\ req["w1"].kind = "verify_session"
  /\ req["w1"].session_token = "token-1"
  /\ req["w1"].result = None
  /\ verify_session("token-2") # None

====
